---------------------------- MODULE Spec2Model ----------------------------
(***************************************************************************)
(* KooDynaErrorAnalyzer: the primary log parser (D3hspParser.parse), the   *)
(* orchestrator (Analyzer.run) and the diagnostics aggregator              *)
(* (run_diagnostics) as state machines.                                    *)
(*                                                                         *)
(* A text line is modelled by the class of tests it passes.  Each class    *)
(* stands for one representative text; the marker and pattern predicates   *)
(* below say which of the parser's substring tests and regular             *)
(* expressions that text satisfies.                                        *)
(***************************************************************************)
EXTENDS Integers, Sequences, FiniteSets, TLC

(***************************************************************************)
(* Bounds of the exploration.                                              *)
(***************************************************************************)
MaxCount == 4        \* warning lines of a file that repeats one warning
MaxWarn == 2         \* warning/error lines of any other file
MaxSnaps == 2        \* energy snapshots kept
MaxRows == 2         \* smallest-timestep rows, timing rows, mass blocks kept
MaxBlock == 2        \* lines buffered in one part block
MaxParts == 2        \* part definitions / contact ids kept
MaxFindings == 3     \* findings handed to run_diagnostics, all lists together
MaxRank == 2         \* highest rank of a mes file
MaxMesLines == 2     \* lines read of the mes files, all files together
MaxSeq == 3          \* energy snapshots handed to analyze_energy
MaxEntries == 6      \* smallest-timestep entries handed to analyze_timestep

(***************************************************************************)
(* Values.  Numbers read from the file are small naturals; Inf is what     *)
(* float("1E999") returns.                                                 *)
(***************************************************************************)
Inf == 999
None == -1

(***************************************************************************)
(* Lines.  k is the class, s/a/b/c are the captured groups.                *)
(***************************************************************************)
Ln(k, s, a, b, c) == [k |-> k, s |-> s, a |-> a, b |-> b, c |-> c]
Plain(k) == Ln(k, "", 0, 0, 0)

\* " L I S T   O F   K E Y W O R D   C O U N T S", " c o n t r o l ...", ...
Banners ==
    { Plain("KwBanner"), Plain("CtrlBanner"), Plain("PartBanner"),
      Plain("ContactBanner"), Plain("TimingBanner"),
      Plain("NormalTerm"), Plain("ErrorTerm") }

\* " *** Warning: see manual" (no code), " some text"
CommonLines == Banners \cup { Plain("WarnText"), Plain("Other") }

\* " *** Warning 40509 ...", " *** Error 10246 ..."
WarningLine(code) == Ln("Warning", "", code, 0, 0)
ErrorLine(code) == Ln("Error", "", code, 0, 0)
\* " dt of cycle 5 is controlled by solid 3 of part 2"
DtCycleLine(cycle, elem, part) == Ln("DtCycle", "solid", cycle, elem, part)
\* " internal energy.......... 1.0E+00"
EnergyLine(label, value) == Ln("EnergyField", label, value, 0, 0)
\* " solid 11 2 1.0E-06"
TsRowLine(type, elem, part) == Ln("TsRow", type, elem, part, 1)

FileKinds ==
    { "header", "control", "parts", "contacts",
      "energy", "overflow", "warning", "nested", "repeat", "table", "timing",
      "tail" }

KindLines(kind) ==
    CASE kind = "header" ->
            { Ln("Version", "", 1, 0, 0), Ln("Version", "", 2, 0, 0),
              Ln("InputFile", "", 1, 0, 0), Ln("CmdLine", "", 2, 0, 0),
              Ln("MppProcs", "", 2, 0, 0), Ln("MppProcs", "", 4, 0, 0),
              Ln("KeywordCount", "NODE", 0, 0, 0),
              Ln("KeywordCount", "NODE", 5, 0, 0),
              Ln("KeywordCount", "PART_option card", 3, 0, 0) }
      [] kind = "control" ->
            { Ln("NumNodes", "", 1, 0, 0), Ln("NumNodes", "", 2, 0, 0),
              Ln("TermTime", "", 1, 0, 0), Ln("TermTime", "", 2, 0, 0),
              Ln("Tssfac", "", 1, 0, 0), Ln("MppProcs", "", 2, 0, 0),
              Ln("KeywordCount", "PART_option card", 3, 0, 0) }
      [] kind = "parts" ->
            { Plain("PartSeparator"), Ln("PartId", "", 0, 0, 0),
              Ln("PartId", "", 1, 0, 0), Ln("PartId", "", 2, 0, 0),
              Ln("MaterialId", "", 4, 0, 0) }
      [] kind = "contacts" ->
            { Ln("ContactHeader", "", 1, 0, 0), Ln("ContactHeader", "", 2, 0, 0),
              Ln("ContactType", "", 13, 0, 0), Plain("SummaryBanner"),
              Plain("OrderHdr"), Ln("SummaryRow", "a", 1, 3, 13),
              Ln("SummaryRow", "", 2, 4, 26), Plain("PartSeparator"),
              \* " *** Warning: T i m i n g   i n f o r m a t i o n"
              Plain("WarnTiming") }
      [] kind = "energy" ->
            { DtCycleLine(1, 11, 1), DtCycleLine(2, 22, 2),
              EnergyLine("internal energy", 1),
              Plain("Blank"), WarningLine(1) }
      [] kind = "overflow" ->
            { DtCycleLine(1, 11, 1), Ln("TermTime", "", 1, 0, 0),
              EnergyLine("time per zone cycle.(nanosec)", 3),
              EnergyLine("time per zone cycle.(nanosec)", Inf),
              Plain("Blank") }
      [] kind = "warning" ->
            { WarningLine(1), WarningLine(2), ErrorLine(3) }
      [] kind = "nested" ->
            { ErrorLine(3), DtCycleLine(1, 11, 1), Plain("TsBanner"),
              WarningLine(1) }
      [] kind = "repeat" ->
            { WarningLine(1), Ln("TiedIntf", "", 7, 0, 0) }
      [] kind = "table" ->
            { Plain("TsBanner"), TsRowLine("solid", 11, 1),
              TsRowLine("shell", 22, 2), Plain("Blank"),
              DtCycleLine(1, 11, 1), WarningLine(1) }
      [] kind = "timing" ->
            { Ln("TimingEntry", "Element processing", 50, 0, 0),
              Ln("InterfId", "", 3, 5, 0), Plain("Totals"),
              Plain("CpuBanner"), Ln("CpuProc", "", 0, 1, 0),
              Ln("DecompMin", "", 40, 0, 0), Ln("MassHeader", "", 3, 0, 0),
              Ln("MassTotal", "", 1, 0, 0) }
      [] kind = "tail" ->
            { Ln("ProblemTime", "", 1, 0, 0), Ln("ProblemCycle", "", 100, 0, 0),
              Ln("TotalCpu", "", 50, 0, 0), Ln("Elapsed", "", 60, 0, 0),
              Ln("StartTime", "", 1, 0, 0), Ln("EndTime", "", 2, 0, 0),
              Plain("TermReached"), Ln("TermTime", "", 1, 0, 0),
              Plain("WarnTiming") }

Lines(kind) == CommonLines \cup KindLines(kind)

(***************************************************************************)
(* The tests of the parser on a line (d3hsp.py:13-143 and the substring    *)
(* tests inside parse).                                                    *)
(***************************************************************************)
HasStars(l) ==
    l.k \in {"Warning", "Error", "WarnText", "TermReached",
             "PartSeparator", "WarnTiming"}
HasWarningOrErrorWord(l) ==
    l.k \in {"Warning", "Error", "WarnText", "WarnTiming"}
RE_WARNING(l) == l.k = "Warning"
RE_ERROR(l) == l.k = "Error"
HasTermReached(l) == l.k = "TermReached"
HasTimingBanner(l) == l.k \in {"TimingBanner", "CpuBanner", "WarnTiming"}
HasCpuTimingBanner(l) == l.k = "CpuBanner"
HasNormalTerm(l) == l.k = "NormalTerm"
HasErrorTerm(l) == l.k = "ErrorTerm"
RE_MPP_PROCS(l) == l.k = "MppProcs"
RE_KEYWORD_COUNT(l) == l.k = "KeywordCount"
RE_PART_SEPARATOR(l) == l.k = "PartSeparator"
RE_TIED_INTERFACE(l) == l.k = "TiedIntf"
RE_ENERGY_FIELD(l) ==
    l.k \in {"EnergyField", "TermTime", "Tssfac", "PartId", "MaterialId",
             "ContactType"}
IsBlank(l) == l.k = "Blank"
HasDtOfCycle(l) == l.k = "DtCycle"
RE_DT_CYCLE(l) == l.k = "DtCycle"
RE_SMALLEST_TS_ENTRY(l) == l.k = "TsRow"
HasSmallestTsBanner(l) == l.k = "TsBanner"

\* m.group(1).strip().lower() of RE_ENERGY_FIELD
EnergyLabel(l) ==
    CASE l.k = "EnergyField" -> l.s
      [] l.k = "TermTime" -> "termination time"
      [] l.k = "Tssfac" -> "time step scale factor"
      [] l.k = "PartId" -> "part     id"
      [] l.k = "MaterialId" -> "material id"
      [] OTHER -> "contact type"


(***************************************************************************)
(* Python dict, list and number helpers.                                   *)
(***************************************************************************)
EmptyDict == [x \in {} |-> 0]
Get(d, key, default) == IF key \in DOMAIN d THEN d[key] ELSE default
Put(d, key, value) ==
    [x \in (DOMAIN d) \cup {key} |-> IF x = key THEN value ELSE d[x]]
Last(seq) == seq[Len(seq)]

(***************************************************************************)
(* State of one D3hspParser.parse call.                                    *)
(***************************************************************************)
VARIABLES
    fileKind,             \* the family of lines the file under parse is made of
    pc,                   \* "reading", "done" (data returned) or "raised"
    state,                \* the phase
    data,                 \* D3hspData
    part_block, in_contact_summary, in_smallest_ts, in_timing, in_cpu_timing,
    in_energy_block, current_energy, current_cycle_info,
    last_warning_code, lines_after_warning,
    assigned,             \* the values the latest step assigned to state
    sinceWarning,         \* lines read since the latest warning line (history)
    tableHist,            \* what was read since the latest table banner (history)
    bannerInContacts      \* CONTACTS has read a timing or termination banner (history)

(***************************************************************************)
(* State of one Analyzer.run call and one run_diagnostics call.            *)
(***************************************************************************)
VARIABLES
    files,                \* result directory: file name -> content class
    step,                 \* position of Analyzer.run
    parsed,               \* Analyzer.run: discovered files and parse results
    report,               \* the Report under construction
    dg_in,                \* run_diagnostics: its arguments
    dg_out,               \* run_diagnostics: all_findings
    dg_pc,                \* position of run_diagnostics
    mes_data,             \* the summaries of the mes files, in file order
    mes_read,             \* mes lines read so far
    d3hsp_ts,             \* smallest_timesteps of the primary log
    merged,               \* what the merge put in the Report
    mg_pc,                \* position of the merge
    an_in,                \* arguments of an analysis function
    an_out,               \* what the analysis function returned
    an_pc                 \* position of the analysis

parserVars ==
    <<fileKind, pc, state, data, part_block, in_contact_summary,
      in_smallest_ts, in_timing, in_cpu_timing, in_energy_block,
      current_energy, current_cycle_info, last_warning_code,
      lines_after_warning, assigned, sinceWarning, tableHist,
      bannerInContacts>>
runVars == <<files, step, parsed, report>>
diagVars == <<dg_in, dg_out, dg_pc>>
mergeVars == <<mes_data, mes_read, d3hsp_ts, merged, mg_pc>>
analysisVars == <<an_in, an_out, an_pc>>
vars == <<parserVars, runVars, diagVars, mergeVars, analysisVars>>

Phases ==
    <<"HEADER", "KEYWORD_COUNTS", "CONTROL_INFO", "PART_DEFS", "CONTACTS",
      "BODY", "TAIL">>
PhaseRank(p) == CHOOSE i \in 1..Len(Phases) : Phases[i] = p

\* models.py: dataclass defaults
SimulationHeader == [version |-> 0, input_file |-> 0, num_procs |-> 0]
ModelSize == [num_nodes |-> 0, num_parts |-> 0]
TerminationInfo ==
    [status |-> "INCOMPLETE", target_time |-> 0, actual_time |-> 0,
     total_cycles |-> 0, total_cpu_seconds |-> 0, elapsed_seconds |-> 0,
     start_datetime |-> 0, end_datetime |-> 0]
DecompMetrics == [min_cost |-> 0]

D3hspData ==
    [header |-> SimulationHeader,
     model_size |-> ModelSize,
     termination |-> TerminationInfo,
     keyword_counts |-> EmptyDict,
     parts |-> <<>>,
     contact_ids |-> <<>>,
     contact_types |-> EmptyDict,
     warning_counts |-> EmptyDict,
     warning_messages |-> EmptyDict,
     warning_interfaces |-> EmptyDict,
     error_counts |-> EmptyDict,
     energy_snapshots |-> <<>>,
     smallest_timesteps |-> <<>>,
     performance |-> <<>>,
     contact_timing |-> <<>>,
     mpp_timing |-> <<>>,
     contact_definitions |-> <<>>,
     dt_scale_factor |-> 0,
     decomp_metrics |-> DecompMetrics,
     mass_properties |-> <<>>]

\* history of the warning lines: all lines, and the lines without "***",
\* read since the latest warning line (None before the first one)
NoWarning == [all |-> None, plain |-> None]

ParserInit(kinds) ==
    /\ fileKind \in kinds
    /\ pc = "reading"
    /\ state = "HEADER"
    /\ data = D3hspData
    /\ part_block = <<>>
    /\ in_contact_summary = FALSE
    /\ in_smallest_ts = FALSE
    /\ in_timing = FALSE
    /\ in_cpu_timing = FALSE
    /\ in_energy_block = FALSE
    /\ current_energy = EmptyDict
    /\ current_cycle_info = EmptyDict
    /\ last_warning_code = None
    /\ lines_after_warning = 0
    /\ assigned = <<>>
    /\ sinceWarning = NoWarning
    /\ tableHist = "none"
    /\ bannerInContacts = FALSE

bodyLocals ==
    <<in_smallest_ts, in_energy_block, current_energy, current_cycle_info,
      last_warning_code, lines_after_warning>>
tailLocals == <<in_timing, in_cpu_timing>>

(***************************************************************************)
(* Reading one line: what every phase handler shares.                      *)
(***************************************************************************)
Read(line) ==
    /\ pc = "reading"
    /\ line \in Lines(fileKind)
    /\ UNCHANGED <<fileKind, runVars, diagVars,
                   mergeVars, analysisVars>>

\* the assignments to state made by a handler entered in phase before and
\* left in phase after
Assignments(before, after) ==
    IF before = after THEN <<>> ELSE <<after>>

(***************************************************************************)
(* HEADER                                                                  *)
(***************************************************************************)
ParseHeaderLine(line, d) ==
    IF line.k = "Version" THEN [d EXCEPT !.header.version = line.a]
    ELSE IF line.k = "InputFile" THEN [d EXCEPT !.header.input_file = line.a]
    ELSE IF line.k = "CmdLine" /\ d.header.input_file = 0
        THEN [d EXCEPT !.header.input_file = line.a]
    ELSE IF RE_MPP_PROCS(line) THEN [d EXCEPT !.header.num_procs = line.a]
    ELSE d

HeaderExit(line) == line.k = "KwBanner"
\* faulty variant: the marker of HEADER leads to the wrong phase
HeaderPhaseMut(line) == IF HeaderExit(line) THEN "CONTROL_INFO" ELSE "HEADER"
HeaderPhase(line) == IF HeaderExit(line) THEN "KEYWORD_COUNTS" ELSE "HEADER"

HeaderRead(line) ==
        /\ Read(line)
        /\ state = "HEADER"
        /\ data' = ParseHeaderLine(line, data)
        /\ state' = HeaderPhase(line)
        /\ assigned' = Assignments(state, state')
        /\ UNCHANGED <<pc, part_block, in_contact_summary, bodyLocals,
                       tailLocals, sinceWarning, tableHist,
                       bannerInContacts>>

(***************************************************************************)
(* KEYWORD_COUNTS                                                          *)
(***************************************************************************)
ParseKeywordCountsLine(line, d) ==
    IF RE_KEYWORD_COUNT(line)
    THEN LET kw == line.s
             count == line.a
             d1 == IF count > 0
                   THEN [d EXCEPT !.keyword_counts = Put(@, kw, count)]
                   ELSE d
         IN IF kw = "PART_option card"
            THEN [d1 EXCEPT !.model_size.num_parts = count]
            ELSE d1
    ELSE IF RE_MPP_PROCS(line) THEN [d EXCEPT !.header.num_procs = line.a]
    ELSE d

KeywordCountsExit(line) == line.k = "CtrlBanner"

KeywordCountsRead(line) ==
        /\ Read(line)
        /\ state = "KEYWORD_COUNTS"
        /\ IF KeywordCountsExit(line)
           THEN state' = "CONTROL_INFO" /\ data' = data
           ELSE state' = state /\ data' = ParseKeywordCountsLine(line, data)
        /\ assigned' = Assignments(state, state')
        /\ UNCHANGED <<pc, part_block, in_contact_summary, bodyLocals,
                       tailLocals, sinceWarning, tableHist,
                       bannerInContacts>>

(***************************************************************************)
(* CONTROL_INFO                                                            *)
(***************************************************************************)
ParseModelSize(line, d) ==
    IF line.k = "NumNodes" THEN [d EXCEPT !.model_size.num_nodes = line.a]
    ELSE d

\* faulty variant: the termination time line also sets the time reached
ParseComputationOptionsMut(line, d) ==
    IF line.k = "TermTime"
    THEN [d EXCEPT !.termination.target_time = line.a,
                   !.termination.actual_time = line.a]
    ELSE IF line.k = "Tssfac" THEN [d EXCEPT !.dt_scale_factor = line.a]
    ELSE d

ParseComputationOptions(line, d) ==
    IF line.k = "TermTime" THEN [d EXCEPT !.termination.target_time = line.a]
    ELSE IF line.k = "Tssfac" THEN [d EXCEPT !.dt_scale_factor = line.a]
    ELSE d

\* faulty variant: CONTROL_INFO applies the header rules again
ParseControlInfoLineMut(line, d) ==
    LET d1 == ParseComputationOptions(line,
                  ParseModelSize(line, ParseHeaderLine(line, d)))
    IN IF RE_MPP_PROCS(line) THEN [d1 EXCEPT !.header.num_procs = line.a]
       ELSE d1

ParseControlInfoLine(line, d) ==
    LET d1 == ParseComputationOptions(line, ParseModelSize(line, d))
    IN IF RE_MPP_PROCS(line) THEN [d1 EXCEPT !.header.num_procs = line.a]
       ELSE d1

ControlInfoExit(line) == line.k = "PartBanner"

ControlInfoRead(line) ==
        /\ Read(line)
        /\ state = "CONTROL_INFO"
        /\ IF ControlInfoExit(line)
           THEN state' = "PART_DEFS" /\ data' = data
           ELSE state' = state /\ data' = ParseControlInfoLine(line, data)
        /\ assigned' = Assignments(state, state')
        /\ UNCHANGED <<pc, part_block, in_contact_summary, bodyLocals,
                       tailLocals, sinceWarning, tableHist,
                       bannerInContacts>>

(***************************************************************************)
(* PART_DEFS                                                               *)
(***************************************************************************)
PartDefinition == [part_id |-> 0, material_id |-> 0]

RECURSIVE ParsePartLines(_, _)
ParsePartLines(lines, part) ==
    IF lines = <<>> THEN part
    ELSE LET line == Head(lines)
             p1 == IF line.k = "PartId" THEN [part EXCEPT !.part_id = line.a]
                   ELSE IF line.k = "MaterialId"
                       THEN [part EXCEPT !.material_id = line.a]
                   ELSE part
         IN ParsePartLines(Tail(lines), p1)

\* faulty variant: a block without a part id yields a part as well
ParsePartBlockMut(lines) == <<ParsePartLines(lines, PartDefinition)>>

\* the list of parts the block yields: empty when part_id stays 0
ParsePartBlock(lines) ==
    LET part == ParsePartLines(lines, PartDefinition)
    IN IF part.part_id = 0 THEN <<>> ELSE <<part>>

\* the text kept in the block buffer: lines that match none of the part
\* patterns are one class of text
BlockText(line) ==
    IF line.k \in {"PartId", "MaterialId"} THEN line ELSE Plain("Other")

FlushPartBlock(block, d) ==
    IF block # <<>>
    THEN [d EXCEPT !.parts = @ \o ParsePartBlock(block)]
    ELSE d

PartDefsExit(line) == line.k = "ContactBanner"

PartDefsRead(line) ==
        /\ Read(line)
        /\ state = "PART_DEFS"
        /\ IF PartDefsExit(line)
           THEN /\ Len(FlushPartBlock(part_block, data).parts) <= MaxParts
                /\ data' = FlushPartBlock(part_block, data)
                /\ part_block' = <<>>
                /\ state' = "CONTACTS"
           ELSE IF RE_PART_SEPARATOR(line)
           THEN /\ Len(FlushPartBlock(part_block, data).parts) <= MaxParts
                /\ data' = FlushPartBlock(part_block, data)
                /\ part_block' = <<>>
                /\ state' = state
           ELSE /\ Len(part_block) < MaxBlock
                /\ part_block' = Append(part_block, BlockText(line))
                /\ UNCHANGED <<data, state>>
        /\ assigned' = Assignments(state, state')
        /\ UNCHANGED <<pc, in_contact_summary, bodyLocals, tailLocals,
                       sinceWarning, tableHist, bannerInContacts>>

(***************************************************************************)
(* The parser's state as one record, so that a handler is a function from  *)
(* (line, state) to state.                                                 *)
(***************************************************************************)
Cur ==
    [pc |-> pc, state |-> state, data |-> data,
     in_contact_summary |-> in_contact_summary,
     in_smallest_ts |-> in_smallest_ts,
     in_timing |-> in_timing, in_cpu_timing |-> in_cpu_timing,
     in_energy_block |-> in_energy_block,
     current_energy |-> current_energy,
     current_cycle_info |-> current_cycle_info,
     last_warning_code |-> last_warning_code,
     lines_after_warning |-> lines_after_warning]

Becomes(s) ==
    /\ pc' = s.pc
    /\ state' = s.state
    /\ data' = s.data
    /\ in_contact_summary' = s.in_contact_summary
    /\ in_smallest_ts' = s.in_smallest_ts
    /\ in_timing' = s.in_timing
    /\ in_cpu_timing' = s.in_cpu_timing
    /\ in_energy_block' = s.in_energy_block
    /\ current_energy' = s.current_energy
    /\ current_cycle_info' = s.current_cycle_info
    /\ last_warning_code' = s.last_warning_code
    /\ lines_after_warning' = s.lines_after_warning

RECURSIVE SumOf(_)
SumOf(d) ==
    IF DOMAIN d = {} THEN 0
    ELSE LET x == CHOOSE x \in DOMAIN d : TRUE
         IN d[x] + SumOf([y \in (DOMAIN d) \ {x} |-> d[y]])

\* the caps of the exploration on what a file makes the parser keep
WarnCap(kind) ==
    IF kind = "repeat" THEN MaxCount
    ELSE IF kind \in {"warning", "nested"} THEN MaxWarn
    ELSE 1
WithinBounds(d) ==
    /\ SumOf(d.warning_counts) + SumOf(d.error_counts) <= WarnCap(fileKind)
    /\ Len(d.energy_snapshots) <= MaxSnaps
    /\ Len(d.smallest_timesteps) <= MaxRows
    /\ Len(d.performance) <= MaxRows
    /\ Len(d.contact_timing) <= MaxRows
    /\ Len(d.mpp_timing) <= MaxRows
    /\ Len(d.mass_properties) <= MaxRows
    /\ Len(d.contact_ids) <= MaxParts
    /\ Len(d.contact_definitions) <= MaxParts

(***************************************************************************)
(* CONTACTS (the branch that stays in CONTACTS)                            *)
(***************************************************************************)
\* faulty variant: the timing-information banner ends CONTACTS as well
ContactsExitMut(line) ==
    (HasStars(line) /\ HasWarningOrErrorWord(line)) \/ HasTimingBanner(line)
ContactsExit(line) == HasStars(line) /\ HasWarningOrErrorWord(line)

ContactDefinition(line) ==
    [order |-> line.a, contact_id |-> line.b,
     type_number |-> line.c, type_prefix |-> line.s]

ContactHeaderOrType(line, s) ==
    IF line.k = "ContactHeader"
    THEN [s EXCEPT !.data.contact_ids = Append(@, line.a)]
    ELSE IF line.k = "ContactType" /\ s.data.contact_ids # <<>>
    THEN [s EXCEPT !.data.contact_types =
                        Put(@, Last(s.data.contact_ids), line.a)]
    ELSE s

ContactsHandler(line, s) ==
    IF line.k = "SummaryBanner" THEN [s EXCEPT !.in_contact_summary = TRUE]
    ELSE IF s.in_contact_summary /\ line.k = "OrderHdr" THEN s
    ELSE IF s.in_contact_summary /\ line.k = "SummaryRow"
    THEN [s EXCEPT !.data.contact_definitions =
                        Append(@, ContactDefinition(line))]
    ELSE IF s.in_contact_summary /\ RE_PART_SEPARATOR(line)
    THEN [s EXCEPT !.in_contact_summary = FALSE]
    ELSE ContactHeaderOrType(line, s)

(***************************************************************************)
(* BODY                                                                    *)
(***************************************************************************)
INCOMPLETE == "INCOMPLETE"
NORMAL == "NORMAL"
ERROR == "ERROR"

\* int(x): OverflowError on an infinite float
IntRaises(x) == x = Inf

EnergySnapshot(cycle_info, energy) ==
    [cycle |-> cycle_info.cycle,
     internal |-> Get(energy, "internal energy", 0),
     controlling_element |-> cycle_info.elem_num,
     controlling_part |-> cycle_info.part_num,
     time_per_zone_ns |-> Get(energy, "time per zone cycle.(nanosec)", 0)]

BuildSnapshotRaises(cycle_info, energy) ==
    /\ DOMAIN cycle_info # {}
    /\ DOMAIN energy # {}
    /\ IntRaises(Get(energy, "time per zone cycle.(nanosec)", 0))

\* the list of snapshots the block yields: empty for "return None"
BuildEnergySnapshot(cycle_info, energy) ==
    IF DOMAIN cycle_info = {} \/ DOMAIN energy = {} THEN <<>>
    ELSE <<EnergySnapshot(cycle_info, energy)>>

ContextWindow == 5       \* d3hsp.py:386
MessageOccurrences == 3  \* d3hsp.py:389

BodyTransition(line, s) ==
    IF HasTimingBanner(line)
    THEN [s EXCEPT !.state = "TAIL", !.in_timing = TRUE]
    ELSE IF HasNormalTerm(line)
    THEN [s EXCEPT !.state = "TAIL", !.data.termination.status = NORMAL]
    ELSE [s EXCEPT !.state = "TAIL", !.data.termination.status = ERROR]

\* faulty variant: a warning line inside an open energy block is not counted
BodyStarsMut(line, s) ==
    IF RE_WARNING(line)
    THEN [s EXCEPT !.data.warning_counts =
                        IF s.in_energy_block THEN @
                        ELSE Put(@, line.a, Get(@, line.a, 0) + 1),
                   !.last_warning_code = line.a,
                   !.lines_after_warning = 0]
    ELSE IF RE_ERROR(line)
    THEN [s EXCEPT !.data.error_counts =
                        Put(@, line.a, Get(@, line.a, 0) + 1),
                   !.last_warning_code = None]
    ELSE IF HasTermReached(line)
    THEN [s EXCEPT !.data.termination.status = NORMAL]
    ELSE s

BodyStars(line, s) ==
    IF RE_WARNING(line)
    THEN [s EXCEPT !.data.warning_counts =
                        Put(@, line.a, Get(@, line.a, 0) + 1),
                   !.last_warning_code = line.a,
                   !.lines_after_warning = 0]
    ELSE IF RE_ERROR(line)
    THEN [s EXCEPT !.data.error_counts =
                        Put(@, line.a, Get(@, line.a, 0) + 1),
                   !.last_warning_code = None]
    ELSE IF HasTermReached(line)
    THEN [s EXCEPT !.data.termination.status = NORMAL]
    ELSE s

\* faulty variant: the context is appended whatever the occurrence count
WarningContextMut(line, s) ==
    LET code == s.last_warning_code
        n == s.lines_after_warning + 1
        m0 == IF code \in DOMAIN s.data.warning_messages
              THEN s.data.warning_messages
              ELSE Put(s.data.warning_messages, code, 0)
        m1 == Put(m0, code, m0[code] + 1)
        i1 == IF RE_TIED_INTERFACE(line)
              THEN Put(s.data.warning_interfaces, code,
                       Get(s.data.warning_interfaces, code, {}) \cup {line.a})
              ELSE s.data.warning_interfaces
    IN IF n <= ContextWindow
       THEN [s EXCEPT !.lines_after_warning = n,
                      !.data.warning_messages = m1,
                      !.data.warning_interfaces = i1]
       ELSE [s EXCEPT !.lines_after_warning = n,
                      !.last_warning_code = None]

\* a message text is modelled by the number of context lines appended to it
WarningContext(line, s) ==
    LET code == s.last_warning_code
        n == s.lines_after_warning + 1
        m0 == IF code \in DOMAIN s.data.warning_messages
              THEN s.data.warning_messages
              ELSE Put(s.data.warning_messages, code, 0)
        m1 == IF Get(s.data.warning_counts, code, 0) <= MessageOccurrences
              THEN Put(m0, code, m0[code] + 1)
              ELSE m0
        i1 == IF RE_TIED_INTERFACE(line)
              THEN Put(s.data.warning_interfaces, code,
                       Get(s.data.warning_interfaces, code, {}) \cup {line.a})
              ELSE s.data.warning_interfaces
    IN IF n <= ContextWindow
       THEN [s EXCEPT !.lines_after_warning = n,
                      !.data.warning_messages = m1,
                      !.data.warning_interfaces = i1]
       ELSE [s EXCEPT !.lines_after_warning = n,
                      !.last_warning_code = None]

\* faulty variant: every captured field appends a snapshot of the block so far
EnergyBlockMut(line, s) ==
    IF RE_ENERGY_FIELD(line)
    THEN [s EXCEPT !.current_energy = Put(@, EnergyLabel(line), line.a),
                   !.data.energy_snapshots =
                       @ \o BuildEnergySnapshot(s.current_cycle_info,
                                Put(s.current_energy, EnergyLabel(line), line.a))]
    ELSE IF IsBlank(line)
    THEN [s EXCEPT !.in_energy_block = FALSE,
                   !.current_energy = EmptyDict]
    ELSE s

EnergyBlock(line, s) ==
    IF RE_ENERGY_FIELD(line)
    THEN [s EXCEPT !.current_energy = Put(@, EnergyLabel(line), line.a)]
    ELSE IF IsBlank(line)
    THEN IF BuildSnapshotRaises(s.current_cycle_info, s.current_energy)
         THEN [s EXCEPT !.pc = "raised"]
         ELSE [s EXCEPT !.data.energy_snapshots =
                            @ \o BuildEnergySnapshot(s.current_cycle_info,
                                                     s.current_energy),
                        !.in_energy_block = FALSE,
                        !.current_energy = EmptyDict]
    ELSE s

DtOfCycle(line, s) ==
    IF RE_DT_CYCLE(line)
    THEN [s EXCEPT !.current_cycle_info =
                        [cycle |-> line.a, elem_type |-> line.s,
                         elem_num |-> line.b, part_num |-> line.c],
                   !.current_energy = EmptyDict,
                   !.in_energy_block = TRUE]
    ELSE s

TimestepEntry(line) ==
    [element_type |-> line.s, element_number |-> line.a,
     part_number |-> line.b, timestep |-> line.c, processor_id |-> None]

\* faulty variant: a line that is neither blank nor a row closes the table
SmallestTsMut(line, s) ==
    IF RE_SMALLEST_TS_ENTRY(line)
    THEN [s EXCEPT !.data.smallest_timesteps = Append(@, TimestepEntry(line))]
    ELSE IF ~IsBlank(line) \/ s.data.smallest_timesteps # <<>>
    THEN [s EXCEPT !.in_smallest_ts = FALSE]
    ELSE s

SmallestTs(line, s) ==
    IF RE_SMALLEST_TS_ENTRY(line)
    THEN [s EXCEPT !.data.smallest_timesteps = Append(@, TimestepEntry(line))]
    ELSE IF IsBlank(line) /\ s.data.smallest_timesteps # <<>>
    THEN [s EXCEPT !.in_smallest_ts = FALSE]
    ELSE s

MassProperty(line) == [part_id |-> line.a, total_mass |-> 0]

\* decomposition metrics and mass properties, shared by BODY and TAIL
HasDecompGate(line) == line.k = "DecompMin"
HasMassHeader(line) == line.k = "MassHeader"
HasMassField(line) == line.k = "MassTotal"

DecompLine(line, s) == [s EXCEPT !.data.decomp_metrics.min_cost = line.a]
MassHeaderLine(line, s) ==
    [s EXCEPT !.data.mass_properties = Append(@, MassProperty(line))]
MassFieldLine(line, s) ==
    [s EXCEPT !.data.mass_properties[Len(s.data.mass_properties)].total_mass
                  = line.a]

BodyHandler(line, s) ==
    IF HasTimingBanner(line) \/ HasNormalTerm(line) \/ HasErrorTerm(line)
    THEN BodyTransition(line, s)
    ELSE IF HasStars(line) THEN BodyStars(line, s)
    ELSE IF s.last_warning_code # None THEN WarningContext(line, s)
    ELSE IF s.in_energy_block THEN EnergyBlock(line, s)
    ELSE IF HasDtOfCycle(line) THEN DtOfCycle(line, s)
    ELSE IF s.in_smallest_ts THEN SmallestTs(line, s)
    ELSE IF HasSmallestTsBanner(line) THEN [s EXCEPT !.in_smallest_ts = TRUE]
    ELSE IF HasDecompGate(line) THEN DecompLine(line, s)
    ELSE IF HasMassHeader(line) THEN MassHeaderLine(line, s)
    ELSE IF s.data.mass_properties # <<>> /\ HasMassField(line)
    THEN MassFieldLine(line, s)
    ELSE s

\* history: lines read in BODY since the latest warning line, counted up to
\* the cap and as long as the parser keeps the code of that warning
HistCap == 6
Count(n) == IF n < HistCap THEN n + 1 ELSE n
SinceWarningAfter(line, s) ==
    IF RE_WARNING(line) /\ s.state = "BODY"
    THEN [all |-> 0, plain |-> 0]
    ELSE IF sinceWarning = NoWarning \/ s.last_warning_code = None
    THEN NoWarning
    ELSE [all |-> Count(sinceWarning.all),
          plain |-> IF HasStars(line) THEN sinceWarning.plain
                    ELSE Count(sinceWarning.plain)]

\* history: "banner" once a table banner opened the mode, "text" once a line
\* that is neither blank nor a row was read with the mode open, "row" once a
\* row was appended after such a line
TableHistAfter(line, s) ==
    IF ~in_smallest_ts
    THEN IF s.in_smallest_ts THEN "banner" ELSE tableHist
    ELSE IF tableHist \in {"text", "row"}
            /\ Len(s.data.smallest_timesteps) > Len(data.smallest_timesteps)
    THEN "row"
    ELSE IF ~IsBlank(line) /\ ~RE_SMALLEST_TS_ENTRY(line) /\ tableHist = "banner"
    THEN "text"
    ELSE tableHist

ContactsRead(line) ==
        /\ Read(line)
        /\ state = "CONTACTS"
        /\ LET s == IF ContactsExit(line)
                    THEN BodyHandler(line, [Cur EXCEPT !.state = "BODY"])
                    ELSE ContactsHandler(line, Cur)
           IN /\ WithinBounds(s.data)
              /\ Becomes(s)
              /\ assigned' = IF ContactsExit(line)
                             THEN <<"BODY">> \o Assignments("BODY", s.state)
                             ELSE <<>>
              /\ sinceWarning' = SinceWarningAfter(line, s)
              /\ tableHist' = TableHistAfter(line, s)
              /\ bannerInContacts' =
                    (/\ s.state = "CONTACTS"
                     /\ \/ bannerInContacts
                        \/ HasTimingBanner(line)
                        \/ HasNormalTerm(line)
                        \/ HasErrorTerm(line))
        /\ UNCHANGED part_block

BodyRead(line) ==
        /\ Read(line)
        /\ state = "BODY"
        /\ LET s == BodyHandler(line, Cur)
           IN /\ WithinBounds(s.data)
              /\ Becomes(s)
              /\ assigned' = Assignments(state, s.state)
              /\ sinceWarning' = SinceWarningAfter(line, s)
              /\ tableHist' = TableHistAfter(line, s)
        /\ UNCHANGED <<part_block, bannerInContacts>>

(***************************************************************************)
(* TAIL                                                                    *)
(***************************************************************************)
HasTotals(line) == line.k = "Totals"
HasTotalsNoCpu(line) == line.k = "Totals"
RE_INTERF_ID(line) == line.k = "InterfId"
RE_TIMING_ENTRY(line) == line.k = "TimingEntry"
RE_CPU_PROC(line) == line.k = "CpuProc"

ContactTiming(line) == [interface_id |-> line.a, cpu_percent |-> line.b]
PerformanceTiming(line) == [component |-> line.s, cpu_percent |-> line.a]
MPPProcessorTiming(line) == [processor_id |-> line.a, cpu_ratio |-> line.b]

TimingTable(line, s) ==
    IF HasTotalsNoCpu(line) THEN [s EXCEPT !.in_timing = FALSE]
    ELSE IF RE_INTERF_ID(line)
    THEN [s EXCEPT !.data.contact_timing = Append(@, ContactTiming(line))]
    ELSE IF RE_TIMING_ENTRY(line)
    THEN [s EXCEPT !.data.performance = Append(@, PerformanceTiming(line))]
    ELSE s

CpuTimingTable(line, s) ==
    IF HasTotals(line) THEN [s EXCEPT !.in_cpu_timing = FALSE]
    ELSE IF RE_CPU_PROC(line)
    THEN [s EXCEPT !.data.mpp_timing = Append(@, MPPProcessorTiming(line))]
    ELSE s

FinalSummary(line, s) ==
    IF HasDecompGate(line) THEN DecompLine(line, s)
    ELSE IF line.k = "ProblemTime"
    THEN [s EXCEPT !.data.termination.actual_time = line.a]
    ELSE IF line.k = "ProblemCycle"
    THEN [s EXCEPT !.data.termination.total_cycles = line.a]
    ELSE IF line.k = "TotalCpu"
    THEN [s EXCEPT !.data.termination.total_cpu_seconds = line.a]
    ELSE IF line.k = "StartTime"
    THEN [s EXCEPT !.data.termination.start_datetime = line.a]
    ELSE IF line.k = "EndTime"
    THEN [s EXCEPT !.data.termination.end_datetime = line.a]
    ELSE IF line.k = "Elapsed"
    THEN [s EXCEPT !.data.termination.elapsed_seconds = line.a]
    ELSE s

TailHandler(line, s) ==
    IF s.in_timing THEN TimingTable(line, s)
    ELSE IF s.in_cpu_timing THEN CpuTimingTable(line, s)
    ELSE IF HasCpuTimingBanner(line) THEN [s EXCEPT !.in_cpu_timing = TRUE]
    ELSE IF HasTimingBanner(line) THEN [s EXCEPT !.in_timing = TRUE]
    ELSE IF HasNormalTerm(line)
    THEN [s EXCEPT !.data.termination.status = NORMAL]
    ELSE IF HasErrorTerm(line)
    THEN [s EXCEPT !.data.termination.status = ERROR]
    ELSE IF HasMassHeader(line) THEN MassHeaderLine(line, s)
    ELSE IF s.data.mass_properties # <<>> /\ HasMassField(line)
    THEN MassFieldLine(line, s)
    ELSE FinalSummary(line, s)

TailRead(line) ==
        /\ Read(line)
        /\ state = "TAIL"
        /\ LET s == TailHandler(line, Cur)
           IN /\ WithinBounds(s.data)
              /\ Becomes(s)
              /\ assigned' = Assignments(state, s.state)
              /\ sinceWarning' = sinceWarning
              /\ tableHist' = tableHist
        /\ UNCHANGED <<part_block, bannerInContacts>>

HeaderLine == \E line \in Lines(fileKind) : HeaderRead(line)
KeywordCountsLine == \E line \in Lines(fileKind) : KeywordCountsRead(line)
ControlInfoLine == \E line \in Lines(fileKind) : ControlInfoRead(line)
PartDefsLine == \E line \in Lines(fileKind) : PartDefsRead(line)
ContactsLine == \E line \in Lines(fileKind) : ContactsRead(line)
BodyLine == \E line \in Lines(fileKind) : BodyRead(line)
TailLine == \E line \in Lines(fileKind) : TailRead(line)

\* end of file: parse returns data
EndOfFile ==
    /\ pc = "reading"
    /\ pc' = "done"
    /\ assigned' = <<>>
    /\ UNCHANGED <<fileKind, state, data, part_block, in_contact_summary,
                   bodyLocals, tailLocals, sinceWarning, tableHist,
                   bannerInContacts,
                   runVars, diagVars,
                   mergeVars, analysisVars>>

ParseNext ==
    \/ HeaderLine
    \/ KeywordCountsLine
    \/ ControlInfoLine
    \/ PartDefsLine
    \/ ContactsLine
    \/ BodyLine
    \/ TailLine
    \/ EndOfFile

(***************************************************************************)
(* run_diagnostics.  A finding is its severity, the argument it came in    *)
(* and its position there.                                                 *)
(***************************************************************************)
CRITICAL == "CRITICAL"
WARNING == "WARNING"
INFO == "INFO"
Severities == {CRITICAL, WARNING, INFO, "OTHER"}

Finding(severity, category, n) ==
    [severity |-> severity, category |-> category, n |-> n]

\* the finding lists in the order run_diagnostics extends all_findings with
\* them; "cross" is what the cross-cutting checks return
FindingLists ==
    <<"energy", "timestep", "warning", "contact", "performance", "cross">>

\* termination: status, actual_time, target_time
Terminations ==
    { [status |-> ERROR, actual_time |-> 1, target_time |-> 2],
      [status |-> INCOMPLETE, actual_time |-> 0, target_time |-> 0],
      [status |-> NORMAL, actual_time |-> 1, target_time |-> 2],
      [status |-> NORMAL, actual_time |-> 2, target_time |-> 2],
      [status |-> NORMAL, actual_time |-> 0, target_time |-> 2],
      [status |-> NORMAL, actual_time |-> 99, target_time |-> 100],
      [status |-> NORMAL, actual_time |-> 98, target_time |-> 100],
      [status |-> NORMAL, actual_time |-> 1, target_time |-> 0] }

NoFindings ==
    [energy |-> <<>>, timestep |-> <<>>, warning |-> <<>>, contact |-> <<>>,
     performance |-> <<>>, cross |-> <<>>]

DiagInit ==
    /\ dg_in \in { [termination |-> tm, lists |-> NoFindings] :
                      tm \in Terminations }
    /\ dg_out = <<>>
    /\ dg_pc = "caller"

RECURSIVE TotalLen(_, _)
TotalLen(lists, i) ==
    IF i > Len(FindingLists) THEN 0
    ELSE Len(lists[FindingLists[i]]) + TotalLen(lists, i + 1)

\* the caller puts one more finding in one of the lists it will pass
AddFinding ==
    /\ dg_pc = "caller"
    /\ TotalLen(dg_in.lists, 1) < MaxFindings
    /\ \E i \in DOMAIN FindingLists, sev \in Severities :
          LET name == FindingLists[i]
          IN /\ \A j \in DOMAIN FindingLists :
                    j > i => dg_in.lists[FindingLists[j]] = <<>>
             /\ dg_in' = [dg_in EXCEPT !.lists[name] =
                              Append(@, Finding(sev, name, Len(@) + 1))]
    /\ UNCHANGED <<dg_out, dg_pc, parserVars, runVars,
                   mergeVars, analysisVars>>

\* faulty variant: a run that reached exactly 99% of the target is reported
TerminationFindingsMut(tm) ==
    IF tm.status = ERROR THEN <<Finding(CRITICAL, "termination", 1)>>
    ELSE IF tm.status = INCOMPLETE THEN <<Finding(CRITICAL, "termination", 2)>>
    ELSE IF tm.actual_time > 0 /\ tm.target_time > 0
            /\ 100 * tm.actual_time <= 99 * tm.target_time
    THEN <<Finding(WARNING, "termination", 3)>>
    ELSE <<>>

\* the termination status check
TerminationFindings(tm) ==
    IF tm.status = ERROR THEN <<Finding(CRITICAL, "termination", 1)>>
    ELSE IF tm.status = INCOMPLETE THEN <<Finding(CRITICAL, "termination", 2)>>
    ELSE IF tm.actual_time > 0 /\ tm.target_time > 0
            /\ 100 * tm.actual_time < 99 * tm.target_time
    THEN <<Finding(WARNING, "termination", 3)>>
    ELSE <<>>

\* all_findings before the sort
Collect ==
    /\ dg_pc = "caller"
    /\ dg_out' = TerminationFindings(dg_in.termination)
                    \o dg_in.lists.energy \o dg_in.lists.timestep
                    \o dg_in.lists.warning \o dg_in.lists.contact
                    \o dg_in.lists.performance \o dg_in.lists.cross
    /\ dg_pc' = "collected"
    /\ UNCHANGED <<dg_in, parserVars, runVars,
                   mergeVars, analysisVars>>

\* severity_order.get(f.severity, 3)
SeverityRank(f) ==
    CASE f.severity = CRITICAL -> 0
      [] f.severity = WARNING -> 1
      [] f.severity = INFO -> 2
      [] OTHER -> 3

\* list.sort(key=...): each element goes behind the elements already placed
\* whose key is not greater
\* faulty variant: the element goes in front of the placed elements of equal key
InsertByKeyMut(sorted, f) ==
    LET before == SelectSeq(sorted, LAMBDA g : SeverityRank(g) < SeverityRank(f))
        after == SelectSeq(sorted, LAMBDA g : SeverityRank(g) >= SeverityRank(f))
    IN before \o <<f>> \o after
InsertByKey(sorted, f) ==
    LET before == SelectSeq(sorted, LAMBDA g : SeverityRank(g) <= SeverityRank(f))
        after == SelectSeq(sorted, LAMBDA g : SeverityRank(g) > SeverityRank(f))
    IN before \o <<f>> \o after

RECURSIVE SortBySeverity(_, _)
SortBySeverity(sorted, rest) ==
    IF rest = <<>> THEN sorted
    ELSE SortBySeverity(InsertByKey(sorted, Head(rest)), Tail(rest))

SortAndReturn ==
    /\ dg_pc = "collected"
    /\ dg_out' = SortBySeverity(<<>>, dg_out)
    /\ dg_pc' = "returned"
    /\ UNCHANGED <<dg_in, parserVars, runVars,
                   mergeVars, analysisVars>>

DiagNext ==
    \/ AddFinding
    \/ Collect
    \/ SortAndReturn

(***************************************************************************)
(* Analyzer.run.  A file of the result directory is absent, "ok" (lines    *)
(* its parser extracts records from), "garbage" (no line its parser        *)
(* recognises) or "raising" (a line on which its parser raises: an         *)
(* infinite "time per zone cycle" value for d3hsp and glstat, a number of  *)
(* more than 4300 digits for status.out, a non-integer interface id for    *)
(* cont_profile.csv, a malformed timestep for a mes file, a "constraint    *)
(* matrix has NaN" line for messag).                                       *)
(***************************************************************************)
Discoverable ==
    <<"d3hsp", "glstat", "status.out", "load_profile.csv", "cont_profile.csv",
      "mes">>
FileNames ==
    { Discoverable[i] : i \in DOMAIN Discoverable }
        \cup {"messag", "nodout", "bndout"}

Contents(name) ==
    CASE name = "d3hsp" ->
            {"absent", "ok", "raising", "bottleneck", "dominated"}
      [] name = "glstat" -> {"absent", "ok", "garbage", "raising"}
      [] name \in {"status.out", "cont_profile.csv", "mes", "messag"} ->
            {"absent", "garbage", "raising"}
      [] OTHER -> {"absent", "garbage"}

Directories ==
    { f \in [FileNames -> {"absent", "ok", "garbage", "raising", "bottleneck",
                           "dominated"}] :
         \A n \in FileNames : f[n] \in Contents(n) }

\* a row of the timing table: component, cpu_percent, clock_percent
TimingRow(component, cpu_percent, clock_percent) ==
    [component |-> component, cpu_percent |-> cpu_percent,
     clock_percent |-> clock_percent]

\* what D3hspParser.parse returns of the timing table, of the smallest
\* timestep table (the part_number of each entry) and of the part
\* definitions (their part_id) for the contents of d3hsp
D3hspRecords(content) ==
    [performance |->
        IF content = "bottleneck"
        THEN <<TimingRow("Force gather", 12, 12),
               TimingRow("Mass Scaling", 6, 6),
               TimingRow("Contact algorithm", 45, 45)>>
        ELSE IF content = "dominated"
        THEN <<TimingRow("Force gather", 10, 10),
               TimingRow("Mass Scaling", 5, 5),
               TimingRow("Contact algorithm", 40, 40)>>
        ELSE <<>>,
     smallest_timesteps |-> IF content = "dominated" THEN <<7, 7, 2>> ELSE <<>>,
     parts |-> IF content = "dominated" THEN <<7, 2>> ELSE <<>>]

Report == [files_found |-> <<>>, from_d3hsp |-> FALSE, energy |-> "none",
           performance |-> <<>>, smallest_timesteps |-> <<>>, parts |-> <<>>,
           findings |-> <<>>]

RunInit ==
    /\ files \in Directories
    /\ step = "discover"
    /\ parsed = {}
    /\ report = Report

\* _discover_files: the files that exist and are not empty
DiscoverFiles ==
    /\ step = "discover"
    /\ parsed' = { n \in FileNames :
                     /\ \E i \in DOMAIN Discoverable : Discoverable[i] = n
                     /\ files[n] # "absent" }
    /\ step' = "d3hsp"
    /\ UNCHANGED <<files, report, parserVars, diagVars,
                   mergeVars, analysisVars>>

StepAfter(name) ==
    CASE name = "d3hsp" -> "glstat"
      [] name = "glstat" -> "status.out"
      [] name = "status.out" -> "load_profile.csv"
      [] name = "load_profile.csv" -> "cont_profile.csv"
      [] name = "cont_profile.csv" -> "mes"
      [] OTHER -> "populate"

\* the call of a parser propagates what the parser raises
ParseRaises(name) == files[name] = "raising"

\* "if name in discovered: result = Parser(...).parse(); files_found.append"
ParseFile(name) ==
    /\ step = name
    /\ IF name \notin parsed
       THEN step' = StepAfter(name) /\ report' = report
       ELSE IF ParseRaises(name)
       THEN step' = "raised" /\ report' = report
       ELSE /\ step' = StepAfter(name)
            /\ report' = [report EXCEPT !.files_found = Append(@, name)]
    /\ UNCHANGED <<files, parsed, parserVars, diagVars,
                   mergeVars, analysisVars>>

ParseD3hsp == ParseFile("d3hsp")
ParseGlstat == ParseFile("glstat")
ParseStatus == ParseFile("status.out")
ParseLoadProfile == ParseFile("load_profile.csv")
ParseContProfile == ParseFile("cont_profile.csv")
ParseMes == ParseFile("mes")

\* phase 3: the report takes the d3hsp records
Populate ==
    /\ step = "populate"
    /\ report' = IF "d3hsp" \in parsed
                 THEN LET d == D3hspRecords(files["d3hsp"])
                      IN [report EXCEPT !.from_d3hsp = TRUE,
                                        !.performance = d.performance,
                                        !.parts = d.parts]
                 ELSE report
    /\ step' = "analysis"
    /\ UNCHANGED <<files, parsed, parserVars, diagVars,
                   mergeVars, analysisVars>>

\* what GlstatParser.parse returns: a snapshot per block of an energy log,
\* none for a file without a 'dt of cycle' line
GlstatSnapshots(content) == IF content = "ok" THEN <<"glstat">> ELSE <<>>

AnalysisMut ==
    /\ step = "analysis"
    /\ report' = [report EXCEPT
                      !.energy =
                          IF "d3hsp" \in parsed THEN "d3hsp"
                          ELSE IF "glstat" \in parsed
                                  /\ GlstatSnapshots(files["glstat"]) # <<>>
                          THEN "glstat" ELSE "none",
                      !.smallest_timesteps =
                          IF "d3hsp" \in parsed
                          THEN D3hspRecords(files["d3hsp"]).smallest_timesteps
                          ELSE <<>>]
    /\ step' = "failure_source"
    /\ UNCHANGED <<files, parsed, parserVars, diagVars,
                   mergeVars, analysisVars>>

\* phase 4: glstat snapshots if there are any, otherwise those of d3hsp
Analysis ==
    /\ step = "analysis"
    /\ report' = [report EXCEPT
                      !.energy =
                          IF "glstat" \in parsed
                             /\ GlstatSnapshots(files["glstat"]) # <<>>
                          THEN "glstat"
                          ELSE IF "d3hsp" \in parsed THEN "d3hsp" ELSE "none",
                      !.smallest_timesteps =
                          IF "d3hsp" \in parsed
                          THEN D3hspRecords(files["d3hsp"]).smallest_timesteps
                          ELSE <<>>]
    /\ step' = "failure_source"
    /\ UNCHANGED <<files, parsed, parserVars, diagVars,
                   mergeVars, analysisVars>>

\* phase 5: analyze_failure_source reads e['element'] of every entry that
\* _parse_failed_elements returns
FailureSource ==
    /\ step = "failure_source"
    /\ step' = IF files["messag"] = "raising" THEN "raised" ELSE "numerical"
    /\ UNCHANGED <<files, parsed, report, parserVars, diagVars,
                   mergeVars, analysisVars>>

\* phase 5b: the nodout and bndout detectors
NumericalInstability ==
    /\ step = "numerical"
    /\ step' = "diagnostics"
    /\ UNCHANGED <<files, parsed, report, parserVars, diagVars,
                   mergeVars, analysisVars>>

\* analyze_performance: a component above 25% of the clock time
AnalyzePerformance(timing) ==
    LET costly == SelectSeq(timing, LAMBDA pt : pt.clock_percent > 25)
    IN [i \in DOMAIN costly |->
            Finding(INFO, "performance", <<costly[i].component, "primary cost">>)]

\* perf_map.get(component): the last row of that component
PerfMap(performance, component) ==
    LET rows == SelectSeq(performance, LAMBDA p : p.component = component)
    IN IF rows = <<>> THEN <<>> ELSE <<rows[Len(rows)]>>

\* _diagnose_performance_bottlenecks
DiagnosePerformanceBottlenecks(performance) ==
    LET Check(component, critical, warning) ==
            LET row == PerfMap(performance, component)
            IN IF row = <<>> THEN <<>>
               ELSE IF critical # None /\ row[1].cpu_percent > critical
               THEN <<Finding(CRITICAL, "performance", <<component, "bottleneck">>)>>
               ELSE IF row[1].cpu_percent > warning
               THEN <<Finding(WARNING, "performance", <<component, "bottleneck">>)>>
               ELSE <<>>
    IN Check("Force gather", 10, 5) \o Check("Mass Scaling", None, 5)
          \o Check("Contact algorithm", 50, 40)

\* _diagnose_problematic_parts: a part with more than half of the entries
DiagnoseProblematicParts(smallest_timesteps, parts) ==
    IF smallest_timesteps = <<>> \/ parts = <<>> THEN <<>>
    ELSE LET CountOf(part) ==
                Len(SelectSeq(smallest_timesteps, LAMBDA ts : ts = part))
             owners == { smallest_timesteps[i] : i \in DOMAIN smallest_timesteps }
             dominant == { part \in owners :
                             2 * CountOf(part) > Len(smallest_timesteps) }
         IN IF dominant = {} THEN <<>>
            ELSE <<Finding(WARNING, "part_analysis",
                           <<CHOOSE part \in dominant : TRUE, "dominates">>)>>

\* phase 6: report.findings = run_diagnostics(...); return report.  The call
\* names neither performance nor smallest_timesteps nor parts, so the two
\* checks get the default of each, an empty list.  Of the findings only
\* those of the timing table and of the part domination are modelled.
Diagnostics ==
    /\ step = "diagnostics"
    /\ report' = [report EXCEPT !.findings =
                      SortBySeverity(<<>>,
                          AnalyzePerformance(report.performance)
                             \o DiagnosePerformanceBottlenecks(<<>>)
                             \o DiagnoseProblematicParts(<<>>, <<>>))]
    /\ step' = "returned"
    /\ UNCHANGED <<files, parsed, parserVars, diagVars,
                   mergeVars, analysisVars>>

RunNext ==
    \/ DiscoverFiles
    \/ ParseD3hsp
    \/ ParseGlstat
    \/ ParseStatus
    \/ ParseLoadProfile
    \/ ParseContProfile
    \/ ParseMes
    \/ Populate
    \/ Analysis
    \/ FailureSource
    \/ NumericalInstability
    \/ Diagnostics

(***************************************************************************)
(* The mes files and their merge in Analyzer.run.  A mes file is read line *)
(* by line into the summary of its rank; the merge wires the summaries     *)
(* into the Report and, after the analysis, writes the processor ids into  *)
(* the smallest-timestep entries of the primary log.                       *)
(***************************************************************************)
Ranks == 0 .. MaxRank
Interfaces == {3, 4}

MessagData(rank) ==
    [rank |-> rank, initial_penetrations |-> EmptyDict,
     smallest_timesteps |-> <<>>, interface_surface_timesteps |-> <<>>,
     contact_dt_limit |-> 0, max_memory_d |-> 0]

\* sorted(result_dir.glob("mes[0-9][0-9][0-9][0-9]")): ascending rank
RECURSIVE SortedRanks(_)
SortedRanks(ranks) ==
    IF ranks = {} THEN <<>>
    ELSE LET least == CHOOSE r \in ranks : \A q \in ranks : r <= q
         IN <<least>> \o SortedRanks(ranks \ {least})

\* the lines of a mes file that change its summary: a row of the smallest
\* timestep section, a complete surface timestep block, the contact dt
\* limit, an initial penetration count, a memory expansion
MesLines ==
    { Ln("TsRow", type, 11, 1, 1) : type \in {"solid", "shell"} }
        \cup { Ln("Surf", "", 3, 0, 0), Ln("ContactDt", "", 5, 0, 0) }
        \cup { Ln("Penetration", "", count, 3, 0) : count \in {5, 7} }
        \cup { Ln("Penetration", "", 1, 4, 0) }
        \cup { Ln("Memory", "", mem, 0, 0) : mem \in {1, 2} }

\* one iteration of the line loop of parse_mes_file
ParseMesLine(line, d) ==
    CASE line.k = "TsRow" ->
            [d EXCEPT !.smallest_timesteps =
                 Append(@, [element_type |-> line.s, element_number |-> line.a,
                            part_number |-> line.b, timestep |-> line.c,
                            processor_id |-> d.rank])]
      [] line.k = "Surf" ->
            IF d.rank = 0
            THEN [d EXCEPT !.interface_surface_timesteps = Append(@, line.a)]
            ELSE d
      [] line.k = "ContactDt" ->
            IF d.rank = 0 THEN [d EXCEPT !.contact_dt_limit = line.a] ELSE d
      [] line.k = "Penetration" ->
            [d EXCEPT !.initial_penetrations = Put(@, line.b, line.a)]
      [] line.k = "Memory" ->
            IF line.a > d.max_memory_d THEN [d EXCEPT !.max_memory_d = line.a]
            ELSE d
      [] OTHER -> d

\* the entries of the primary log: processor_id is the default of the class
PrimaryEntries ==
    { [element_type |-> key[1], element_number |-> key[2], part_number |-> 1,
       timestep |-> 1, processor_id |-> None] :
         key \in {<<"solid", 11>>, <<"shell", 11>>, <<"solid", 12>>} }

\* the fields of the Report that the merge sets, with their defaults
Merged ==
    [initial_penetrations |-> EmptyDict, memory_per_rank |-> <<>>,
     interface_surface_timesteps |-> <<>>, contact_dt_limit |-> 0,
     elem_to_proc |-> EmptyDict, smallest_timesteps |-> <<>>]

MergeInit ==
    /\ mes_data \in { [i \in DOMAIN SortedRanks(ranks) |->
                          MessagData(SortedRanks(ranks)[i])] :
                        ranks \in SUBSET Ranks }
    /\ mes_read = 0
    /\ d3hsp_ts \in UNION { [1 .. n -> PrimaryEntries] : n \in 0 .. MaxRows }
    /\ merged = Merged
    /\ mg_pc = "parsing"

\* parse_all_mes_files reads the files one after the other
MesRead ==
    /\ mg_pc = "parsing"
    /\ mes_read < MaxMesLines
    /\ \E i \in DOMAIN mes_data, line \in MesLines :
          /\ \A j \in DOMAIN mes_data :
                j > i => mes_data[j] = MessagData(mes_data[j].rank)
          /\ mes_data' = [mes_data EXCEPT ![i] = ParseMesLine(line, @)]
    /\ mes_read' = mes_read + 1
    /\ UNCHANGED <<d3hsp_ts, merged, mg_pc, parserVars, runVars, diagVars,
                   analysisVars>>

\* "all_pens[intf_id] = all_pens.get(intf_id, 0) + count" for the items of
\* one summary
\* faulty variant: the count of the later rank replaces the sum
AddPenetrationsMut(all_pens, pens) ==
    [i \in (DOMAIN all_pens) \cup (DOMAIN pens) |->
        IF i \in DOMAIN pens THEN pens[i] ELSE all_pens[i]]
AddPenetrations(all_pens, pens) ==
    [i \in (DOMAIN all_pens) \cup (DOMAIN pens) |->
        IF i \in DOMAIN pens THEN Get(all_pens, i, 0) + pens[i]
        ELSE all_pens[i]]

RECURSIVE MergePenetrations(_, _)
MergePenetrations(all_pens, mds) ==
    IF mds = <<>> THEN all_pens
    ELSE MergePenetrations(
             AddPenetrations(all_pens, Head(mds).initial_penetrations),
             Tail(mds))

\* "if key not in elem_to_proc: elem_to_proc[key] = ts.processor_id"
\* faulty variant: the later writer replaces the earlier one
AddLookupMut(elem_to_proc, ts) ==
    Put(elem_to_proc, <<ts.element_type, ts.element_number>>, ts.processor_id)
AddLookup(elem_to_proc, ts) ==
    LET key == <<ts.element_type, ts.element_number>>
    IN IF key \notin DOMAIN elem_to_proc
       THEN Put(elem_to_proc, key, ts.processor_id)
       ELSE elem_to_proc

\* the two loops over the summaries and over their smallest_timesteps
RECURSIVE ElemToProc(_, _)
ElemToProc(elem_to_proc, entries) ==
    IF entries = <<>> THEN elem_to_proc
    ELSE ElemToProc(AddLookup(elem_to_proc, Head(entries)), Tail(entries))

RECURSIVE AllEntries(_)
AllEntries(mds) ==
    IF mds = <<>> THEN <<>>
    ELSE Head(mds).smallest_timesteps \o AllEntries(Tail(mds))

\* next((md for md in mes_data if md.rank == 0), None)
RankZero(mds) ==
    LET zero == SelectSeq(mds, LAMBDA md : md.rank = 0)
    IN IF zero = <<>> THEN <<>> ELSE <<Head(zero)>>

\* "if mes_data:" of phase 3
WireMes ==
    /\ mg_pc = "parsing"
    /\ merged' =
          IF mes_data = <<>> THEN merged
          ELSE LET rank0 == RankZero(mes_data)
               IN [merged EXCEPT
                     !.initial_penetrations =
                         MergePenetrations(EmptyDict, mes_data),
                     !.memory_per_rank =
                         [i \in DOMAIN mes_data |-> mes_data[i].max_memory_d],
                     !.interface_surface_timesteps =
                         IF rank0 # <<>>
                         THEN rank0[1].interface_surface_timesteps ELSE @,
                     !.contact_dt_limit =
                         IF rank0 # <<>> THEN rank0[1].contact_dt_limit ELSE @,
                     !.elem_to_proc =
                         ElemToProc(EmptyDict, AllEntries(mes_data))]
    /\ mg_pc' = "wired"
    /\ UNCHANGED <<mes_data, mes_read, d3hsp_ts, parserVars, runVars, diagVars,
                   analysisVars>>

\* analyze_timestep hands the list of the primary log on; "if mes_data:"
\* of phase 4 then maps the processor ids onto its entries
MapProcessorIds ==
    /\ mg_pc = "wired"
    /\ merged' = [merged EXCEPT !.smallest_timesteps =
          IF mes_data = <<>> THEN d3hsp_ts
          ELSE [k \in DOMAIN d3hsp_ts |->
                  LET ts == d3hsp_ts[k]
                      key == <<ts.element_type, ts.element_number>>
                  IN IF key \in DOMAIN merged.elem_to_proc
                     THEN [ts EXCEPT !.processor_id = merged.elem_to_proc[key]]
                     ELSE ts]]
    /\ mg_pc' = "done"
    /\ UNCHANGED <<mes_data, mes_read, d3hsp_ts, parserVars, runVars, diagVars,
                   analysisVars>>

MergeNext ==
    \/ MesRead
    \/ WireMes
    \/ MapProcessorIds

(***************************************************************************)
(* The analysis functions _diagnose_decomp, analyze_energy and             *)
(* analyze_timestep.  Energies, costs and timesteps are integers; a ratio  *)
(* is the pair of its numerator and its positive denominator, and the      *)
(* comparisons of the code are made on cross products.  The energy ratio   *)
(* of a snapshot is in hundredths.  A finding carries its title and, for   *)
(* the hourglass and the domination findings, the time or the part it      *)
(* names.                                                                  *)
(***************************************************************************)
Abs(x) == IF x < 0 THEN 0 - x ELSE x
Less(r, q) == r[1] * q[2] < q[1] * r[2]

Costs == {-1, 0, 40, 50, 60, 70, 85, 100}

\* faulty variant: an imbalance of exactly 50% is CRITICAL
DiagnoseDecompMut(decomp_metrics) ==
    LET min_cost == decomp_metrics.min_cost
        max_cost == decomp_metrics.max_cost
    IN IF min_cost <= 0 \/ max_cost <= 0 THEN <<>>
       ELSE IF 2 * (max_cost - min_cost) >= max_cost
       THEN <<Finding(CRITICAL, "decomposition", <<"imbalance", 0>>)>>
       ELSE IF 10 * (max_cost - min_cost) > 3 * max_cost
       THEN <<Finding(WARNING, "decomposition", <<"imbalance", 0>>)>>
       ELSE <<>>

\* _diagnose_decomp: imbalance = (max_cost - min_cost) / max_cost against
\* 0.50 and 0.30
DiagnoseDecomp(decomp_metrics) ==
    LET min_cost == decomp_metrics.min_cost
        max_cost == decomp_metrics.max_cost
    IN IF min_cost <= 0 \/ max_cost <= 0 THEN <<>>
       ELSE IF 2 * (max_cost - min_cost) > max_cost
       THEN <<Finding(CRITICAL, "decomposition", <<"imbalance", 0>>)>>
       ELSE IF 10 * (max_cost - min_cost) > 3 * max_cost
       THEN <<Finding(WARNING, "decomposition", <<"imbalance", 0>>)>>
       ELSE <<>>

\* the snapshots handed to analyze_energy: total, internal, hourglass,
\* sliding_interface, energy_ratio
SnapshotShapes ==
    { <<100, 100, h, 0, 100>> : h \in {-10, 10, 11, 50, 51, 60} }
        \cup { <<total, 0, 0, 0, 100>> : total \in {-100, 0, 100, 105, 106} }
        \cup { <<100, 0, 60, 0, 100>>, <<100, 100, 0, 6, 89>> }

Snapshot(time, shape) ==
    [time |-> time, total |-> shape[1], internal |-> shape[2],
     hourglass |-> shape[3], sliding_interface |-> shape[4],
     energy_ratio |-> shape[5]]

SnapshotLists ==
    UNION { { [i \in 1 .. n |-> Snapshot(i, shapes[i])] :
                 shapes \in [1 .. n -> SnapshotShapes] } : n \in 0 .. MaxSeq }

\* the loop "if s.internal > 0: ratio = ...; if ratio > max_hg_ratio"
RECURSIVE MaxHourglass(_, _)
MaxHourglass(acc, snapshots) ==
    IF snapshots = <<>> THEN acc
    ELSE LET s == Head(snapshots)
             ratio == <<s.hourglass, s.internal>>
         IN MaxHourglass(
                IF s.internal > 0 /\ Less(acc.max_hg_ratio, ratio)
                THEN [max_hg_ratio |-> ratio, max_hg_time |-> s.time]
                ELSE acc,
                Tail(snapshots))

\* faulty variant: a ratio of exactly 50% is CRITICAL
HourglassFindingsMut(hg) ==
    IF ~Less(hg.max_hg_ratio, <<50, 100>>)
    THEN <<Finding(CRITICAL, "energy", <<"hourglass", hg.max_hg_time>>)>>
    ELSE IF Less(<<10, 100>>, hg.max_hg_ratio)
    THEN <<Finding(WARNING, "energy", <<"hourglass", hg.max_hg_time>>)>>
    ELSE <<>>

\* max_hg_ratio against HOURGLASS_RATIO_CRIT and HOURGLASS_RATIO_WARN
HourglassFindings(hg) ==
    IF Less(<<50, 100>>, hg.max_hg_ratio)
    THEN <<Finding(CRITICAL, "energy", <<"hourglass", hg.max_hg_time>>)>>
    ELSE IF Less(<<10, 100>>, hg.max_hg_ratio)
    THEN <<Finding(WARNING, "energy", <<"hourglass", hg.max_hg_time>>)>>
    ELSE <<>>

\* the loop "if s.total > 0: ratio = abs(sliding) / abs(total)"
RECURSIVE MaxSliding(_, _)
MaxSliding(max_slide_ratio, snapshots) ==
    IF snapshots = <<>> THEN max_slide_ratio
    ELSE LET s == Head(snapshots)
             ratio == <<Abs(s.sliding_interface), Abs(s.total)>>
         IN MaxSliding(IF s.total > 0 /\ Less(max_slide_ratio, ratio)
                       THEN ratio ELSE max_slide_ratio,
                       Tail(snapshots))

SlidingFindings(max_slide_ratio) ==
    IF Less(<<5, 100>>, max_slide_ratio)
    THEN <<Finding(WARNING, "energy", <<"sliding", 0>>)>>
    ELSE <<>>

\* min and max of energy_ratio against ENERGY_RATIO_CRIT and _WARN
EnergyRatioFindings(snapshots) ==
    LET ratios == { snapshots[i].energy_ratio : i \in DOMAIN snapshots }
        min_ratio == CHOOSE r \in ratios : \A q \in ratios : r <= q
        max_ratio == CHOOSE r \in ratios : \A q \in ratios : r >= q
    IN IF Abs(max_ratio - 100) > 10 \/ Abs(min_ratio - 100) > 10
       THEN <<Finding(CRITICAL, "energy", <<"balance", 0>>)>>
       ELSE IF Abs(max_ratio - 100) > 5 \/ Abs(min_ratio - 100) > 5
       THEN <<Finding(WARNING, "energy", <<"balance", 0>>)>>
       ELSE <<>>

\* "if len(snapshots) > 2", with
\* initial_total = initial.total if initial.total != 0 else 1.0
GrowthFindings(snapshots) ==
    LET initial_total == IF snapshots[1].total # 0 THEN snapshots[1].total
                         ELSE 1
        final_total == snapshots[Len(snapshots)].total
    IN IF /\ Len(snapshots) > 2
          /\ initial_total > 0
          /\ 100 * (final_total - initial_total) > 5 * initial_total
       THEN <<Finding(CRITICAL, "energy", <<"increasing", 0>>)>>
       ELSE <<>>

EnergyAnalysis ==
    [max_hourglass_ratio |-> <<0, 1>>, max_sliding_ratio |-> <<0, 1>>,
     findings |-> <<>>]

analyze_energy(snapshots) ==
    IF snapshots = <<>> THEN EnergyAnalysis
    ELSE LET hg == MaxHourglass([max_hg_ratio |-> <<0, 1>>, max_hg_time |-> 0],
                                snapshots)
             max_slide_ratio == MaxSliding(<<0, 1>>, snapshots)
         IN [max_hourglass_ratio |-> hg.max_hg_ratio,
             max_sliding_ratio |-> max_slide_ratio,
             findings |-> HourglassFindings(hg)
                             \o SlidingFindings(max_slide_ratio)
                             \o EnergyRatioFindings(snapshots)
                             \o GrowthFindings(snapshots)]

\* the smallest-timestep entries handed to analyze_timestep, each one its
\* part_number, and the timesteps of the energy snapshots
PartNumbers == {7, 2}
EntryLists == UNION { [1 .. n -> PartNumbers] : n \in 0 .. MaxEntries }
TimestepLists == { <<>>, <<100, 9>>, <<100, 40>>, <<100, 100>> }

\* part_counts: the parts in the order of their first entry, with their count
PartCount(smallest_timesteps, part) ==
    Len(SelectSeq(smallest_timesteps, LAMBDA p : p = part))

FirstEntry(smallest_timesteps, part) ==
    CHOOSE i \in DOMAIN smallest_timesteps :
        /\ smallest_timesteps[i] = part
        /\ \A j \in 1 .. i - 1 : smallest_timesteps[j] # part

\* max(part_counts.items(), key=lambda x: x[1]): the first of the greatest
DominantPart(smallest_timesteps) ==
    LET owners == { smallest_timesteps[i] : i \in DOMAIN smallest_timesteps }
        greatest == { p \in owners :
                        \A q \in owners :
                            PartCount(smallest_timesteps, q)
                               <= PartCount(smallest_timesteps, p) }
    IN CHOOSE p \in greatest :
          \A q \in greatest :
              FirstEntry(smallest_timesteps, p)
                 <= FirstEntry(smallest_timesteps, q)

\* faulty variant: a share of exactly 80% counts
DominatesMut(dominant_count, total_entries) ==
    5 * dominant_count >= 4 * total_entries

\* dominant_count / total_entries > 0.8
Dominates(dominant_count, total_entries) ==
    5 * dominant_count > 4 * total_entries

\* min_dt / initial_dt against DT_DROP_CRIT and DT_DROP_WARN
DtDropFindings(timesteps) ==
    IF timesteps = <<>> THEN <<>>
    ELSE LET initial_dt == timesteps[1]
             dts == { timesteps[i] : i \in DOMAIN timesteps }
             min_dt == CHOOSE d \in dts : \A e \in dts : d <= e
         IN IF initial_dt > 0 /\ min_dt > 0
            THEN IF 10 * min_dt < initial_dt
                 THEN <<Finding(CRITICAL, "timestep", <<"severe drop", 0>>)>>
                 ELSE IF 2 * min_dt < initial_dt
                 THEN <<Finding(WARNING, "timestep", <<"drop", 0>>)>>
                 ELSE <<>>
            ELSE <<>>

analyze_timestep(smallest_timesteps, timesteps, dt2ms) ==
    DtDropFindings(timesteps)
       \o (IF smallest_timesteps # <<>>
              /\ Dominates(PartCount(smallest_timesteps,
                                     DominantPart(smallest_timesteps)),
                           Len(smallest_timesteps))
           THEN <<Finding(INFO, "timestep",
                          <<"dominates", DominantPart(smallest_timesteps)>>)>>
           ELSE <<>>)
       \o (IF dt2ms # 0
           THEN <<Finding(INFO, "timestep", <<"mass scaling", 0>>)>>
           ELSE <<>>)

(***************************************************************************)
(* knowledge/error_db.py and analysis/warnings.py.                         *)
(***************************************************************************)
ErrorInfo(code, severity, title) ==
    [code |-> code, severity |-> severity, title |-> title]

\* five of the entries of the knowledge base, with the severities stored
ERROR_DATABASE ==
    (10100 :> ErrorInfo(10100, CRITICAL, "stored"))
    @@ (20200 :> ErrorInfo(20200, WARNING, "stored"))
    @@ (50135 :> ErrorInfo(50135, WARNING, "stored"))
    @@ (60100 :> ErrorInfo(60100, WARNING, "stored"))
    @@ (90001 :> ErrorInfo(90001, CRITICAL, "stored"))

\* the codes looked up: the stored ones and the codes around each threshold
LookupCodes ==
    DOMAIN ERROR_DATABASE
        \cup {0, 19999, 20000, 39999, 40000, 49999, 50000, 59999, 60000, 60001}

lookup_errorMut(database, code) ==
    IF code \in DOMAIN database THEN database[code]
    ELSE LET severity ==
                 IF code <= 20000 THEN CRITICAL
                 ELSE IF code < 40000 THEN WARNING
                 ELSE IF code < 50000 THEN WARNING
                 ELSE IF code < 60000 THEN WARNING
                 ELSE INFO
         IN ErrorInfo(code, severity, "Code")
lookup_error(database, code) ==
    IF code \in DOMAIN database THEN database[code]
    ELSE LET severity ==
                 IF code < 20000 THEN CRITICAL
                 ELSE IF code < 40000 THEN WARNING
                 ELSE IF code < 50000 THEN WARNING
                 ELSE IF code < 60000 THEN WARNING
                 ELSE INFO
         IN ErrorInfo(code, severity, "Code")

WarningEntry(code, count, severity) ==
    [code |-> code, count |-> count, severity |-> severity]

\* a tally is the item list of a dict: <<code, count>> pairs in insertion
\* order, no code twice
TallyCodes == {10100, 50135, 30000, 60001}
TallyCounts == {1, 2}
MaxCodes == 3
Tallies(codes, counts, n) ==
    { t \in UNION { [1..k -> codes \X counts] : k \in 0..n } :
        \A i, j \in DOMAIN t : i # j => t[i][1] # t[j][1] }

\* sorted(items) and sorted(items, key=lambda x: -x[1]), both stable
InsertByCode(sorted, item) ==
    LET before == SelectSeq(sorted, LAMBDA g : g[1] <= item[1])
        after == SelectSeq(sorted, LAMBDA g : g[1] > item[1])
    IN before \o <<item>> \o after
InsertByCount(sorted, item) ==
    LET before == SelectSeq(sorted, LAMBDA g : g[2] >= item[2])
        after == SelectSeq(sorted, LAMBDA g : g[2] < item[2])
    IN before \o <<item>> \o after
RECURSIVE SortedByCode(_, _)
SortedByCode(sorted, rest) ==
    IF rest = <<>> THEN sorted
    ELSE SortedByCode(InsertByCode(sorted, Head(rest)), Tail(rest))
RECURSIVE SortedByCount(_, _)
SortedByCount(sorted, rest) ==
    IF rest = <<>> THEN sorted
    ELSE SortedByCount(InsertByCount(sorted, Head(rest)), Tail(rest))

RECURSIVE TotalCount(_)
TotalCount(items) ==
    IF items = <<>> THEN 0 ELSE Head(items)[2] + TotalCount(Tail(items))

MapItems(items, Op(_)) == [i \in 1..Len(items) |-> Op(items[i])]

\* codes_by_severity.get(severity, [])
CodesBySeverity(warning_counts, severity) ==
    SelectSeq(warning_counts,
              LAMBDA item : lookup_error(ERROR_DATABASE, item[1]).severity = severity)

ErrorEntries(error_counts) ==
    MapItems(SortedByCode(<<>>, error_counts),
             LAMBDA item : WarningEntry(item[1], item[2], CRITICAL))
ErrorFindings(error_counts) ==
    MapItems(SortedByCode(<<>>, error_counts),
             LAMBDA item : Finding(CRITICAL, "error", <<"Error", item[1], item[2]>>))
WarningEntries(warning_counts) ==
    MapItems(SortedByCount(<<>>, warning_counts),
             LAMBDA item : WarningEntry(item[1], item[2],
                               lookup_error(ERROR_DATABASE, item[1]).severity))
CriticalWarningFindings(warning_counts) ==
    MapItems(CodesBySeverity(warning_counts, CRITICAL),
             LAMBDA item : Finding(CRITICAL, "warning", <<"Warning", item[1], item[2]>>))
\* the summary of the codes of severity WARNING: their total and their number
RollUpFindings(warning_counts) ==
    LET warn_codes == CodesBySeverity(warning_counts, WARNING)
    IN IF warn_codes # <<>>
       THEN <<Finding(WARNING, "warning",
                      <<"warnings detected", TotalCount(warn_codes), Len(warn_codes)>>)>>
       ELSE <<>>

analyze_warnings(warning_counts, error_counts) ==
    [entries |-> ErrorEntries(error_counts) \o WarningEntries(warning_counts),
     findings |-> ErrorFindings(error_counts)
                  \o (IF TotalCount(warning_counts) > 0
                      THEN CriticalWarningFindings(warning_counts)
                           \o RollUpFindings(warning_counts)
                      ELSE <<>>)]

(***************************************************************************)
(* The mapping of 'label .... value' lines to snapshot fields, in          *)
(* parsers/glstat.py and in D3hspParser._build_energy_snapshot.  A label   *)
(* is the tuple of its tokens, so that "key in field_name" is the          *)
(* containment of one tuple in another as a contiguous run.                *)
(***************************************************************************)
MaxFieldLines == 2

FIELD_MAP_ORDERED ==
    << <<<<"total", "energy", "/", "initial", "energy">>, "energy_ratio">>,
       <<<<"energy", "ratio", "w/o", "eroded", "energy">>, "energy_ratio_no_eroded">>,
       <<<<"eroded", "kinetic", "energy">>, "eroded_kinetic">>,
       <<<<"eroded", "internal", "energy">>, "eroded_internal">>,
       <<<<"eroded", "hourglass", "energy">>, "eroded_hourglass">>,
       <<<<"spring", "and", "damper", "energy">>, "spring_damper">>,
       <<<<"sliding", "interface", "energy">>, "sliding_interface">>,
       <<<<"system", "damping", "energy">>, "system_damping">>,
       <<<<"dissipated", "kinetic", "energy">>, "dissipated_kinetic">>,
       <<<<"dissipated", "internal", "energy">>, "dissipated_internal">>,
       <<<<"time", "per", "zone", "cycle">>, "zone_ns">>,
       <<<<"kinetic", "energy">>, "kinetic">>,
       <<<<"internal", "energy">>, "internal">>,
       <<<<"hourglass", "energy">>, "hourglass">>,
       <<<<"drilling", "energy">>, "drilling">>,
       <<<<"total", "energy">>, "total">>,
       <<<<"external", "work">>, "external_work">>,
       <<<<"global", "x", "velocity">>, "vx">>,
       <<<<"global", "y", "velocity">>, "vy">>,
       <<<<"global", "z", "velocity">>, "vz">>,
       <<<<"time", "step">>, "timestep">>,
       <<<<"time">>, "time">> >>

\* the label as the log prints it
ZoneCycleLabel == <<"time", "per", "zone", "cycle", ".(nanosec)">>

\* key in field_name
Contains(field_name, key) ==
    \E i \in 1..(Len(field_name) - Len(key) + 1) :
        SubSeq(field_name, i, i + Len(key) - 1) = key

\* "for key, attr in FIELD_MAP_ORDERED: if key in field_name: ...; break":
\* the attributes a line sets (none or one)
GlstatAttrMut(field_name) ==
    LET hits == { i \in DOMAIN FIELD_MAP_ORDERED :
                     Contains(field_name, FIELD_MAP_ORDERED[i][1]) }
    IN IF hits = {} THEN {}
       ELSE {FIELD_MAP_ORDERED[CHOOSE i \in hits : \A j \in hits : j <= i][2]}
GlstatAttr(field_name) ==
    LET hits == { i \in DOMAIN FIELD_MAP_ORDERED :
                     Contains(field_name, FIELD_MAP_ORDERED[i][1]) }
    IN IF hits = {} THEN {}
       ELSE {FIELD_MAP_ORDERED[CHOOSE i \in hits : \A j \in hits : i <= j][2]}

\* current_fields after the lines of a block
RECURSIVE GlstatFields(_, _)
GlstatFields(fields, lines) ==
    IF lines = <<>> THEN fields
    ELSE LET attr == GlstatAttr(Head(lines).label)
         IN GlstatFields(IF attr = {} THEN fields
                         ELSE Put(fields, CHOOSE a \in attr : TRUE, Head(lines).value),
                         Tail(lines))

\* the fields of an EnergySnapshot that come from the lines
SnapshotFields ==
    {"time", "timestep", "kinetic", "internal", "spring_damper", "hourglass",
     "system_damping", "sliding_interface", "external_work", "eroded_kinetic",
     "eroded_internal", "eroded_hourglass", "total", "energy_ratio",
     "energy_ratio_no_eroded", "vx", "vy", "vz", "time_per_zone_ns"}

\* GlstatParser._build_snapshot: the list holding the snapshot, empty for None
GlstatBuildSnapshot(fields) ==
    IF DOMAIN fields = {} THEN <<>>
    ELSE << [f \in SnapshotFields |->
               IF f \in {"energy_ratio", "energy_ratio_no_eroded"}
               THEN Get(fields, f, 1)
               ELSE IF f = "time_per_zone_ns" THEN Get(fields, "zone_ns", 0)
               ELSE Get(fields, f, 0)] >>

\* current_energy after the lines of a block of the primary log
RECURSIVE CurrentEnergy(_, _)
CurrentEnergy(energy, lines) ==
    IF lines = <<>> THEN energy
    ELSE CurrentEnergy(Put(energy, Head(lines).label, Head(lines).value),
                       Tail(lines))

\* the key that _build_energy_snapshot passes to get_exact for each field
ExactKey ==
    [f \in SnapshotFields |->
        CASE f = "time" -> <<"time">>
          [] f = "timestep" -> <<"time", "step">>
          [] f = "kinetic" -> <<"kinetic", "energy">>
          [] f = "internal" -> <<"internal", "energy">>
          [] f = "spring_damper" -> <<"spring", "and", "damper", "energy">>
          [] f = "hourglass" -> <<"hourglass", "energy">>
          [] f = "system_damping" -> <<"system", "damping", "energy">>
          [] f = "sliding_interface" -> <<"sliding", "interface", "energy">>
          [] f = "external_work" -> <<"external", "work">>
          [] f = "eroded_kinetic" -> <<"eroded", "kinetic", "energy">>
          [] f = "eroded_internal" -> <<"eroded", "internal", "energy">>
          [] f = "eroded_hourglass" -> <<"eroded", "hourglass", "energy">>
          [] f = "total" -> <<"total", "energy">>
          [] f = "energy_ratio" -> <<"total", "energy", "/", "initial", "energy">>
          [] f = "energy_ratio_no_eroded" ->
                 <<"energy", "ratio", "w/o", "eroded", "energy">>
          [] f = "vx" -> <<"global", "x", "velocity">>
          [] f = "vy" -> <<"global", "y", "velocity">>
          [] f = "vz" -> <<"global", "z", "velocity">>
          [] OTHER -> ZoneCycleLabel]

get_exact(energy, key) == Get(energy, key, 0)

\* the fields _build_energy_snapshot fills from the energy dict
EnergySnapshotFields(energy) ==
    IF DOMAIN energy = {} THEN <<>>
    ELSE << [f \in SnapshotFields |->
               IF f \in {"energy_ratio", "energy_ratio_no_eroded"}
                  /\ get_exact(energy, ExactKey[f]) = 0
               THEN 1
               ELSE get_exact(energy, ExactKey[f])] >>

\* the labels each parser knows, and the labels of the lines it is given
KnownLabels(parser) ==
    IF parser = "glstat"
    THEN {FIELD_MAP_ORDERED[i][1] : i \in DOMAIN FIELD_MAP_ORDERED}
    ELSE {ExactKey[f] : f \in SnapshotFields}
LineLabels(parser) == KnownLabels(parser) \cup {ZoneCycleLabel}

\* the lines of one block: the k-th line carries the value k + 1
FieldBlocks(parser) ==
    UNION { { [i \in 1..k |-> [label |-> labels[i], value |-> i + 1]] :
                labels \in [1..k -> LineLabels(parser)] } :
            k \in 0..MaxFieldLines }

(***************************************************************************)
(* D3hspParser.parse as a function of the lines of the file, for a parse   *)
(* that is followed by a second parse of the same file.                    *)
(***************************************************************************)
MaxLog == 3

\* the locals of parse, as the assignments at its head leave them
ParseStart ==
    [pc |-> "reading", state |-> "HEADER", data |-> D3hspData,
     part_block |-> <<>>,
     in_contact_summary |-> FALSE, in_smallest_ts |-> FALSE,
     in_timing |-> FALSE, in_cpu_timing |-> FALSE,
     in_energy_block |-> FALSE,
     current_energy |-> EmptyDict, current_cycle_info |-> EmptyDict,
     last_warning_code |-> None, lines_after_warning |-> 0]

\* faulty variant: the result object of the previous parse is filled again
RestartMut(previous) == [ParseStart EXCEPT !.data = previous.data]
\* a new call of parse after a parse that ended in previous: every local and
\* the result object are created anew
Restart(previous) == ParseStart

\* one turn of the loop over the lines
ParseStep(line, s) ==
    IF s.pc # "reading" THEN s
    ELSE CASE s.state = "HEADER" ->
                 [s EXCEPT !.data = ParseHeaderLine(line, @),
                           !.state = HeaderPhase(line)]
           [] s.state = "KEYWORD_COUNTS" ->
                 IF KeywordCountsExit(line)
                 THEN [s EXCEPT !.state = "CONTROL_INFO"]
                 ELSE [s EXCEPT !.data = ParseKeywordCountsLine(line, @)]
           [] s.state = "CONTROL_INFO" ->
                 IF ControlInfoExit(line)
                 THEN [s EXCEPT !.state = "PART_DEFS"]
                 ELSE [s EXCEPT !.data = ParseControlInfoLine(line, @)]
           [] s.state = "PART_DEFS" ->
                 IF PartDefsExit(line)
                 THEN [s EXCEPT !.data = FlushPartBlock(s.part_block, @),
                                !.part_block = <<>>,
                                !.state = "CONTACTS"]
                 ELSE IF RE_PART_SEPARATOR(line)
                 THEN [s EXCEPT !.data = FlushPartBlock(s.part_block, @),
                                !.part_block = <<>>]
                 ELSE [s EXCEPT !.part_block = Append(@, BlockText(line))]
           [] s.state = "CONTACTS" ->
                 IF ContactsExit(line)
                 THEN BodyHandler(line, [s EXCEPT !.state = "BODY"])
                 ELSE ContactsHandler(line, s)
           [] s.state = "BODY" -> BodyHandler(line, s)
           [] OTHER -> TailHandler(line, s)

RECURSIVE ParseLog(_, _)
ParseLog(lines, s) ==
    IF lines = <<>> THEN s
    ELSE ParseLog(Tail(lines), ParseStep(Head(lines), s))

\* the files parsed twice: the banners up to the contact interfaces, with a
\* version line and a part, and then up to MaxLog lines
LogHead ==
    << Ln("Version", "", 1, 0, 0), Plain("KwBanner"), Plain("CtrlBanner"),
       Plain("PartBanner"), Ln("PartId", "", 1, 0, 0), Plain("ContactBanner") >>
LogLines ==
    { WarningLine(1), ErrorLine(3), Ln("TiedIntf", "", 7, 0, 0),
      DtCycleLine(1, 11, 1), EnergyLine("internal energy", 1), Plain("Blank"),
      Plain("TsBanner"), TsRowLine("solid", 11, 1), Plain("NormalTerm"),
      Plain("Other") }
Logs ==
    { LogHead \o body : body \in UNION { [1..k -> LogLines] : k \in 0..MaxLog } }

\* the caller's arguments, for one of the functions
AnalysisInit ==
    /\ an_in \in
          { [fn |-> "decomp", decomp_metrics |-> [min_cost |-> lo, max_cost |-> hi]] :
               lo \in Costs, hi \in Costs }
            \cup { [fn |-> "energy", snapshots |-> s] : s \in SnapshotLists }
            \cup { [fn |-> "timestep", smallest_timesteps |-> e,
                    timesteps |-> ts, dt2ms |-> m] :
                      e \in EntryLists, ts \in TimestepLists, m \in {0, 1} }
            \cup UNION { { [fn |-> "fields", parser |-> p, lines |-> b] :
                              b \in FieldBlocks(p) } : p \in {"d3hsp", "glstat"} }
            \cup { [fn |-> "parse", lines |-> l] : l \in Logs }
            \cup { [fn |-> "lookup", code |-> c, database |-> ERROR_DATABASE] :
                      c \in LookupCodes }
            \cup { [fn |-> "warnings", warning_counts |-> w, error_counts |-> e] :
                      w \in Tallies(TallyCodes, TallyCounts, MaxCodes),
                      e \in Tallies({50135, 60001}, {1}, MaxCodes) }
    /\ an_out = <<>>
    /\ an_pc = "called"

CallDiagnoseDecomp ==
    /\ an_pc = "called"
    /\ an_in.fn = "decomp"
    /\ an_out' = DiagnoseDecomp(an_in.decomp_metrics)
    /\ an_pc' = "returned"
    /\ UNCHANGED <<an_in, parserVars, runVars, diagVars, mergeVars>>

CallAnalyzeEnergy ==
    /\ an_pc = "called"
    /\ an_in.fn = "energy"
    /\ an_out' = analyze_energy(an_in.snapshots)
    /\ an_pc' = "returned"
    /\ UNCHANGED <<an_in, parserVars, runVars, diagVars, mergeVars>>

CallAnalyzeTimestep ==
    /\ an_pc = "called"
    /\ an_in.fn = "timestep"
    /\ an_out' = analyze_timestep(an_in.smallest_timesteps, an_in.timesteps,
                                  an_in.dt2ms)
    /\ an_pc' = "returned"
    /\ UNCHANGED <<an_in, parserVars, runVars, diagVars, mergeVars>>

\* the module-level dict is what the function reads; the call leaves it as
\* it is
CallLookupError ==
    /\ an_pc = "called"
    /\ an_in.fn = "lookup"
    /\ an_out' = lookup_error(an_in.database, an_in.code)
    /\ an_pc' = "returned"
    /\ UNCHANGED <<an_in, parserVars, runVars, diagVars, mergeVars>>

CallAnalyzeWarnings ==
    /\ an_pc = "called"
    /\ an_in.fn = "warnings"
    /\ an_out' = analyze_warnings(an_in.warning_counts, an_in.error_counts)
    /\ an_pc' = "returned"
    /\ UNCHANGED <<an_in, parserVars, runVars, diagVars, mergeVars>>

\* the lines of one energy block, up to the snapshot built from them
CallBuildSnapshot ==
    /\ an_pc = "called"
    /\ an_in.fn = "fields"
    /\ an_out' = IF an_in.parser = "glstat"
                 THEN GlstatBuildSnapshot(GlstatFields(EmptyDict, an_in.lines))
                 ELSE EnergySnapshotFields(CurrentEnergy(EmptyDict, an_in.lines))
    /\ an_pc' = "returned"
    /\ UNCHANGED <<an_in, parserVars, runVars, diagVars, mergeVars>>

\* parse, and parse again: what each of the two calls returns, or that it
\* raised
CallParseTwice ==
    /\ an_pc = "called"
    /\ an_in.fn = "parse"
    /\ an_out' = LET first == ParseLog(an_in.lines, ParseStart)
                     second == ParseLog(an_in.lines, Restart(first))
                 IN [first |-> [pc |-> first.pc, data |-> first.data],
                     second |-> [pc |-> second.pc, data |-> second.data]]
    /\ an_pc' = "returned"
    /\ UNCHANGED <<an_in, parserVars, runVars, diagVars, mergeVars>>

AnalysisNext ==
    \/ CallParseTwice
    \/ CallBuildSnapshot
    \/ CallDiagnoseDecomp
    \/ CallAnalyzeEnergy
    \/ CallAnalyzeTimestep
    \/ CallLookupError
    \/ CallAnalyzeWarnings

(***************************************************************************)
(* The specifications.                                                     *)
(***************************************************************************)
RunIdle ==
    /\ files = EmptyDict
    /\ step = "idle"
    /\ parsed = {}
    /\ report = Report
DiagIdle ==
    /\ dg_in = [termination |-> TerminationInfo, lists |-> NoFindings]
    /\ dg_out = <<>>
    /\ dg_pc = "idle"

MergeIdle ==
    /\ mes_data = <<>>
    /\ mes_read = 0
    /\ d3hsp_ts = <<>>
    /\ merged = Merged
    /\ mg_pc = "idle"
AnalysisIdle ==
    /\ an_in = <<>>
    /\ an_out = <<>>
    /\ an_pc = "idle"
Init == ParserInit(FileKinds) /\ RunIdle /\ DiagIdle /\ MergeIdle /\ AnalysisIdle
Next == ParseNext
Spec == Init /\ [][Next]_vars

InitRun ==
    ParserInit({"header"}) /\ RunInit /\ DiagIdle /\ MergeIdle /\ AnalysisIdle
NextRun == RunNext
SpecRun == InitRun /\ [][NextRun]_vars

InitDiag ==
    ParserInit({"header"}) /\ RunIdle /\ DiagInit /\ MergeIdle /\ AnalysisIdle

InitMerge ==
    ParserInit({"header"}) /\ RunIdle /\ DiagIdle /\ MergeInit /\ AnalysisIdle
NextMerge == MergeNext
SpecMerge == InitMerge /\ [][NextMerge]_vars

InitAnalysis ==
    ParserInit({"header"}) /\ RunIdle /\ DiagIdle /\ MergeIdle /\ AnalysisInit
NextAnalysis == AnalysisNext
SpecAnalysis == InitAnalysis /\ [][NextAnalysis]_vars
NextDiag == DiagNext
SpecDiag == InitDiag /\ [][NextDiag]_vars

(***************************************************************************)
(* Properties of D3hspParser.parse.                                        *)
(***************************************************************************)
RECURSIVE ForwardFrom(_, _)
ForwardFrom(p, seq) ==
    \/ seq = <<>>
    \/ /\ PhaseRank(p) < Len(Phases)
       /\ Head(seq) = Phases[PhaseRank(p) + 1]
       /\ ForwardFrom(Head(seq), Tail(seq))

\* C1: the phase only moves forward along HEADER, KEYWORD_COUNTS,
\* CONTROL_INFO, PART_DEFS, CONTACTS, BODY, TAIL: every assignment to the
\* phase made while a line is handled goes to the immediately following
\* phase, and the phase after the line is the last one assigned.
C1_PhaseForward ==
    [][ /\ ForwardFrom(state, assigned')
        /\ state' = IF assigned' = <<>> THEN state ELSE Last(assigned')
        /\ PhaseRank(state') >= PhaseRank(state) ]_vars

\* a line that ends CONTACTS and BODY at once went through both
C1_Witness == state = "TAIL" /\ assigned = <<"BODY", "TAIL">>

\* the records extracted by the rules of phase p
Extracted(p, d) ==
    CASE p = "HEADER" -> <<d.header>>
      [] p = "KEYWORD_COUNTS" -> <<d.keyword_counts>>
      [] p = "CONTROL_INFO" ->
            <<d.model_size, d.dt_scale_factor, d.termination.target_time>>
      [] p = "PART_DEFS" -> <<d.parts>>
      [] p = "CONTACTS" ->
            <<d.contact_ids, d.contact_types, d.contact_definitions>>
      [] p = "BODY" ->
            <<d.warning_counts, d.error_counts, d.energy_snapshots,
              d.smallest_timesteps>>
      [] OTHER -> <<>>

\* the same, without the process count of the header
ExtractedButProcs(p, d) ==
    IF p = "HEADER" THEN <<d.header.version, d.header.input_file>>
    ELSE Extracted(p, d)

EarlierPhases(p) == { Phases[i] : i \in 1..(PhaseRank(p) - 1) }

\* C2 as stated: a line read after phase P has ended leaves every record
\* that P extracts unchanged.
C2_Original ==
    [][ \A p \in EarlierPhases(state) :
            Extracted(p, data') = Extracted(p, data) ]_vars

\* C2, amended: a line read after phase P has ended leaves every record
\* that P extracts unchanged, except the process count of the header,
\* which KEYWORD_COUNTS and CONTROL_INFO lines also set.
C2_Irrevocable ==
    [][ \A p \in EarlierPhases(state) :
            ExtractedButProcs(p, data') = ExtractedButProcs(p, data) ]_vars

\* header fields set in HEADER are still there in TAIL, the process count
\* being the one a KEYWORD_COUNTS line gave
C2_Witness ==
    /\ state = "TAIL"
    /\ data.header.version = 1
    /\ data.header.input_file = 1
    /\ data.header.num_procs = 4
    /\ "NODE" \in DOMAIN data.keyword_counts

\* C3 as stated: every "dt of cycle" line read in BODY leaves an energy
\* block open, a blank line read while a block is open closes it, and the
\* closed block adds exactly one snapshot with its cycle, element and part
\* when it captured a field and none otherwise.
C3_EnergyBlocks ==
    [][ \A line \in Lines(fileKind) :
            (state = "BODY" /\ BodyRead(line)) =>
                /\ RE_DT_CYCLE(line) => in_energy_block'
                /\ (IsBlank(line) /\ in_energy_block) =>
                      /\ ~in_energy_block'
                      /\ data'.energy_snapshots =
                            data.energy_snapshots \o
                               (IF DOMAIN current_energy = {} THEN <<>>
                                ELSE << EnergySnapshot(current_cycle_info,
                                                       current_energy) >>) ]_vars

\* a message or an interface was attributed to code c by the step
Attributed(c) ==
    \/ Get(data'.warning_messages, c, 0) # Get(data.warning_messages, c, 0)
    \/ Get(data'.warning_interfaces, c, {}) # Get(data.warning_interfaces, c, {})

Codes == { l.a : l \in { x \in Lines(fileKind) : RE_WARNING(x) } }

\* C4 as stated: only the 5 lines that follow a warning line are
\* attributed to its code, a new warning line starts a fresh window for its
\* own code and an error line leaves no window open.
C4_ContextWindow ==
    [][ /\ \A c \in Codes :
              Attributed(c) =>
                  /\ sinceWarning'.all >= 1
                  /\ sinceWarning'.all <= ContextWindow
        /\ \A line \in Lines(fileKind) :
              (state = "BODY" /\ BodyRead(line)) =>
                  /\ RE_WARNING(line) =>
                        /\ last_warning_code' = line.a
                        /\ lines_after_warning' = 0
                  /\ RE_ERROR(line) => last_warning_code' = None ]_vars

\* C5 as stated: a line read with the table mode open that is neither
\* blank nor a row closes the mode, and no row is appended after such a
\* line.
C5_Original ==
    [][ /\ \A line \in Lines(fileKind) :
              (state = "BODY" /\ BodyRead(line) /\ in_smallest_ts
                   /\ ~IsBlank(line) /\ ~RE_SMALLEST_TS_ENTRY(line)) =>
                  ~in_smallest_ts'
        /\ tableHist' # "row" ]_vars

\* the line reaches the table rules of BODY
ReachesTable(line) ==
    /\ ~(HasTimingBanner(line) \/ HasNormalTerm(line) \/ HasErrorTerm(line))
    /\ ~HasStars(line)
    /\ last_warning_code = None
    /\ ~in_energy_block
    /\ ~HasDtOfCycle(line)

\* C5, amended: once the banner was read the mode stays open across lines
\* that are neither blank nor rows; every row that reaches the table rules
\* while the mode is open is appended, also after such a line; the mode
\* closes only at a blank line that reaches the table rules once the table
\* is not empty.
C5_TableMode ==
    [][ \A line \in Lines(fileKind) :
            (state = "BODY" /\ BodyRead(line) /\ in_smallest_ts) =>
                /\ (ReachesTable(line) /\ RE_SMALLEST_TS_ENTRY(line)) =>
                      data'.smallest_timesteps =
                          Append(data.smallest_timesteps, TimestepEntry(line))
                /\ ~in_smallest_ts' <=>
                      /\ ReachesTable(line)
                      /\ IsBlank(line)
                      /\ data.smallest_timesteps # <<>>
                /\ Len(data'.smallest_timesteps) > Len(data.smallest_timesteps)
                      => (ReachesTable(line) /\ RE_SMALLEST_TS_ENTRY(line)) ]_vars

\* a row was appended after a line that is neither blank nor a row
C5_Witness ==
    /\ tableHist = "row"
    /\ in_smallest_ts
    /\ Len(data.smallest_timesteps) = 2

\* C6 as stated: once the status is NORMAL or ERROR no line changes it.
C6_StatusTerminal ==
    [][ data.termination.status # INCOMPLETE =>
            data'.termination.status = data.termination.status ]_vars

\* C7 as stated: every field of TerminationInfo has its default when the
\* parser enters TAIL.
C7_Original ==
    [][ (state # "TAIL" /\ state' = "TAIL") =>
            data'.termination = TerminationInfo ]_vars

\* the fields of TerminationInfo that the final summary gives
SummaryFields(t) ==
    <<t.actual_time, t.total_cycles, t.total_cpu_seconds, t.elapsed_seconds,
      t.start_datetime, t.end_datetime>>

\* C7, amended: the actual time, cycle count, CPU and elapsed seconds and
\* start/end timestamps are written only by lines read in TAIL, so they have
\* their defaults when the parser enters TAIL; the target time is written in
\* CONTROL_INFO only and the status in BODY and TAIL only.
C7_TerminationFields ==
    [][ /\ state # "TAIL" =>
              SummaryFields(data'.termination) = SummaryFields(TerminationInfo)
        /\ state # "CONTROL_INFO" =>
              data'.termination.target_time = data.termination.target_time
        /\ state \notin {"CONTACTS", "BODY", "TAIL"} =>
              data'.termination.status = INCOMPLETE ]_vars

\* TAIL is entered with a target time and a status already written
C7_Witness ==
    /\ "TAIL" \in { assigned[i] : i \in DOMAIN assigned }
    /\ data.termination.target_time = 1
    /\ data.termination.status = NORMAL
    /\ SummaryFields(data.termination) = SummaryFields(TerminationInfo)

\* C8 as stated: parse never ends in an error.
C8_NeverRaises == pc # "raised"


(***************************************************************************)
(* Properties of Analyzer.run and run_diagnostics.                         *)
(***************************************************************************)
\* C9 as stated: Analyzer.run returns a Report for every combination of
\* present, absent and malformed files: no failure of a parser or of an
\* analysis step ends the run.
C9_AlwaysReport == step # "raised"

\* the concatenation the claim names
Concatenation ==
    TerminationFindings(dg_in.termination)
        \o dg_in.lists.energy \o dg_in.lists.timestep \o dg_in.lists.warning
        \o dg_in.lists.contact \o dg_in.lists.performance \o dg_in.lists.cross

OfRank(seq, r) == SelectSeq(seq, LAMBDA f : SeverityRank(f) = r)

\* C10: the returned list has non-decreasing severity ranks and, for every
\* rank, holds exactly the findings of that rank of the concatenation
\* [termination, energy, timestep, warning, contact, performance,
\* cross-cutting] in their order there.
C10_StableSort ==
    dg_pc = "returned" =>
        /\ \A i \in 1..(Len(dg_out) - 1) :
              SeverityRank(dg_out[i]) <= SeverityRank(dg_out[i + 1])
        /\ \A r \in 0..3 : OfRank(dg_out, r) = OfRank(Concatenation, r)
        /\ Len(dg_out) = Len(Concatenation)

\* a returned list in which the sort moved a finding in front of two
\* findings of equal severity that kept their order
C10_Witness ==
    /\ dg_pc = "returned"
    /\ Len(dg_out) >= 3
    /\ dg_out # Concatenation
    /\ \E i \in 1..(Len(dg_out) - 1) :
          /\ dg_out[i].severity = dg_out[i + 1].severity
          /\ dg_out[i].category # "termination"

\* the severities of the termination findings the claim names
ExpectedTermination(tm) ==
    IF tm.status \in {ERROR, INCOMPLETE} THEN <<CRITICAL>>
    ELSE IF tm.status = NORMAL /\ tm.actual_time > 0 /\ tm.target_time > 0
            /\ 100 * tm.actual_time < 99 * tm.target_time
    THEN <<WARNING>>
    ELSE <<>>

OfCategory(seq, c) == SelectSeq(seq, LAMBDA f : f.category = c)

\* C11: the returned list holds exactly one CRITICAL termination finding
\* when the status is ERROR or INCOMPLETE, exactly one WARNING termination
\* finding when the status is NORMAL with 0 < actual_time and
\* actual_time / target_time < 0.99, and none otherwise; for ERROR and
\* INCOMPLETE that finding is the first element of the returned list.
C11_TerminationFirst ==
    dg_pc = "returned" =>
        LET found == OfCategory(dg_out, "termination")
            want == ExpectedTermination(dg_in.termination)
        IN /\ Len(found) = Len(want)
           /\ \A i \in DOMAIN found : found[i].severity = want[i]
           /\ dg_in.termination.status \in {ERROR, INCOMPLETE} =>
                 dg_out[1].category = "termination"

\* an ERROR run whose termination finding stands ahead of a CRITICAL finding
\* of an analyzer
C11_Witness ==
    /\ dg_pc = "returned"
    /\ dg_in.termination.status = ERROR
    /\ Len(dg_out) >= 2
    /\ dg_out[1].category = "termination"
    /\ dg_out[2].severity = CRITICAL

\* the report holds a finding of the cross-cutting check named by what
HasFinding(category, what) ==
    \E i \in DOMAIN report.findings :
        /\ report.findings[i].category = category
        /\ report.findings[i].n = what

Above(component, percent) ==
    \E i \in DOMAIN report.performance :
        /\ report.performance[i].component = component
        /\ report.performance[i].cpu_percent > percent

\* C12 as stated: after a full run, a 'Force gather' component above 10%
\* CPU, a 'Mass Scaling' component above 5% CPU or a 'Contact algorithm'
\* component above 40% CPU of the parsed timing table has its
\* performance-bottleneck finding in the Report, and a part that owns more
\* than half of the parsed smallest-timestep entries has its part-domination
\* finding there.
C12_CrossCutting ==
    step = "returned" =>
        /\ Above("Force gather", 10) =>
              HasFinding("performance", <<"Force gather", "bottleneck">>)
        /\ Above("Mass Scaling", 5) =>
              HasFinding("performance", <<"Mass Scaling", "bottleneck">>)
        /\ Above("Contact algorithm", 40) =>
              HasFinding("performance", <<"Contact algorithm", "bottleneck">>)
        /\ \A part \in {7, 2} :
              (/\ report.parts # <<>>
               /\ 2 * Len(SelectSeq(report.smallest_timesteps,
                                    LAMBDA ts : ts = part))
                     > Len(report.smallest_timesteps))
                 => HasFinding("part_analysis", <<part, "dominates">>)

\* the sum over the summaries of the count each reports for an interface
RECURSIVE ReportedSum(_, _)
ReportedSum(mds, intf) ==
    IF mds = <<>> THEN 0
    ELSE Get(Head(mds).initial_penetrations, intf, 0)
            + ReportedSum(Tail(mds), intf)

\* C13: the merged initial_penetrations of an interface is the sum over all
\* ranks of the count the rank reports for it (0 for a rank that does not
\* report it), and an interface that no rank reports is absent.
C13_PenetrationSum ==
    mg_pc \in {"wired", "done"} =>
        /\ DOMAIN merged.initial_penetrations =
              UNION { DOMAIN mes_data[i].initial_penetrations :
                         i \in DOMAIN mes_data }
        /\ \A intf \in DOMAIN merged.initial_penetrations :
              merged.initial_penetrations[intf] = ReportedSum(mes_data, intf)

\* {3: 5} and {3: 7} of two ranks merged to {3: 12}
C13_Witness ==
    /\ mg_pc = "wired"
    /\ Len(mes_data) >= 2
    /\ Get(mes_data[1].initial_penetrations, 3, 0) = 5
    /\ Get(mes_data[2].initial_penetrations, 3, 0) = 7
    /\ merged.initial_penetrations[3] = 12
    /\ 4 \notin DOMAIN merged.initial_penetrations

\* the summaries that hold an entry of the key, in file order
Holders(key) ==
    SelectSeq(mes_data, LAMBDA md :
        \E i \in DOMAIN md.smallest_timesteps :
            <<md.smallest_timesteps[i].element_type,
              md.smallest_timesteps[i].element_number>> = key)

\* C14: the lookup keeps for every key the processor id of its first
\* occurrence in rank order; afterwards an entry of the primary log whose
\* key is in the lookup has that processor id, an entry whose key is absent
\* has processor_id = -1, and no other field of an entry has changed.
C14_FirstWriterWins ==
    mg_pc = "done" =>
        /\ Len(merged.smallest_timesteps) = Len(d3hsp_ts)
        /\ \A k \in DOMAIN d3hsp_ts :
              LET ts == d3hsp_ts[k]
                  holders == Holders(<<ts.element_type, ts.element_number>>)
              IN merged.smallest_timesteps[k] =
                    [ts EXCEPT !.processor_id =
                        IF holders = <<>> THEN None ELSE Head(holders).rank]

\* a key that two ranks hold, and one that no rank holds, in the primary log
C14_Witness ==
    /\ mg_pc = "done"
    /\ \E k, l \in DOMAIN d3hsp_ts :
          /\ Len(Holders(<<d3hsp_ts[k].element_type,
                           d3hsp_ts[k].element_number>>)) >= 2
          /\ merged.smallest_timesteps[k].processor_id # None
          /\ merged.smallest_timesteps[l].processor_id = None

\* C15 as stated: after the merge the surface-timestep table and the contact
\* dt bound of the Report are those of the rank-0 summary, and for every rank
\* r that has a mes file memory_per_rank[r] is the peak memory of rank r
\* (the list of the model starts at index 1, so rank r is at r + 1).
C15_RankIndexed ==
    mg_pc \in {"wired", "done"} =>
        /\ \A i \in DOMAIN mes_data :
              mes_data[i].rank = 0 =>
                 /\ merged.interface_surface_timesteps =
                       mes_data[i].interface_surface_timesteps
                 /\ merged.contact_dt_limit = mes_data[i].contact_dt_limit
        /\ \A i \in DOMAIN mes_data :
              /\ mes_data[i].rank + 1 \in DOMAIN merged.memory_per_rank
              /\ merged.memory_per_rank[mes_data[i].rank + 1] =
                    mes_data[i].max_memory_d

\* C16: once a code has occurred more than 3 times no line read changes
\* its accumulated message text any more, while every warning line that the
\* BODY phase reads still raises the occurrence count of its code by one.
C16_MessageCap ==
    [][ /\ \A c \in DOMAIN data.warning_counts :
              data.warning_counts[c] > 3 =>
                 Get(data'.warning_messages, c, 0)
                    = Get(data.warning_messages, c, 0)
        /\ \A line \in Lines(fileKind) :
              (state = "BODY" /\ RE_WARNING(line) /\ BodyRead(line)) =>
                 Get(data'.warning_counts, line.a, 0)
                    = Get(data.warning_counts, line.a, 0) + 1 ]_vars

\* a context line was read after the 4th occurrence of a code whose earlier
\* occurrences did accumulate text
C16_Witness ==
    /\ state = "BODY"
    /\ last_warning_code = 1
    /\ Get(data.warning_counts, 1, 0) = 4
    /\ lines_after_warning >= 1
    /\ Get(data.warning_messages, 1, 0) >= 1

\* the findings of the title in what an analysis function returned
Titled(findings, title) == SelectSeq(findings, LAMBDA f : f.n[1] = title)

\* C17: the decomposition check emits nothing when min_cost <= 0 or
\* max_cost <= 0; otherwise exactly one CRITICAL finding when
\* (max_cost - min_cost) / max_cost > 0.50, exactly one WARNING finding when
\* it is above 0.30 and at most 0.50, and nothing when it is at most 0.30.
C17_DecompThresholds ==
    (an_pc = "returned" /\ an_in.fn = "decomp") =>
        LET lo == an_in.decomp_metrics.min_cost
            hi == an_in.decomp_metrics.max_cost
            severities == [i \in DOMAIN an_out |-> an_out[i].severity]
        IN IF lo <= 0 \/ hi <= 0 THEN severities = <<>>
           ELSE IF 100 * (hi - lo) > 50 * hi THEN severities = <<CRITICAL>>
           ELSE IF 100 * (hi - lo) > 30 * hi THEN severities = <<WARNING>>
           ELSE severities = <<>>

\* min_cost = 0.40 and max_cost = 0.85 gave the CRITICAL finding
C17_Witness ==
    /\ an_pc = "returned"
    /\ an_in.fn = "decomp"
    /\ an_in.decomp_metrics = [min_cost |-> 40, max_cost |-> 85]
    /\ Len(an_out) = 1
    /\ an_out[1].severity = CRITICAL

\* the snapshots with internal > 0, and those of them whose ratio
\* hourglass / internal no other exceeds
Eligible(snapshots) ==
    { i \in DOMAIN snapshots : snapshots[i].internal > 0 }
Attains(snapshots) ==
    { i \in Eligible(snapshots) :
        \A j \in Eligible(snapshots) :
            snapshots[j].hourglass * snapshots[i].internal
               <= snapshots[i].hourglass * snapshots[j].internal }
SameRatio(r, q) == r[1] * q[2] = q[1] * r[2]

\* the hourglass findings by the thresholds 0.50 and 0.10, with the time of
\* the first snapshot that attains the maximum
HourglassAsClaimed(snapshots, findings) ==
    LET r == an_out.max_hourglass_ratio
        found == Titled(findings, "hourglass")
        first == CHOOSE i \in Attains(snapshots) :
                    \A j \in Attains(snapshots) : i <= j
    IN IF 100 * r[1] > 50 * r[2]
       THEN /\ Len(found) = 1
            /\ found[1].severity = CRITICAL
            /\ found[1].n[2] = snapshots[first].time
       ELSE IF 100 * r[1] > 10 * r[2]
       THEN /\ Len(found) = 1
            /\ found[1].severity = WARNING
            /\ found[1].n[2] = snapshots[first].time
       ELSE found = <<>>

\* C18 as stated: max_hourglass_ratio is the maximum of hourglass / internal
\* over the snapshots with internal > 0, and 0 if there is none; the
\* hourglass finding is CRITICAL above 0.50, WARNING above 0.10, absent
\* otherwise, and names the time of the first snapshot attaining the maximum.
C18_Original ==
    (an_pc = "returned" /\ an_in.fn = "energy" /\ an_in.snapshots # <<>>) =>
        LET snapshots == an_in.snapshots
        IN /\ IF Eligible(snapshots) = {}
              THEN SameRatio(an_out.max_hourglass_ratio, <<0, 1>>)
              ELSE \E i \in Attains(snapshots) :
                      SameRatio(an_out.max_hourglass_ratio,
                                <<snapshots[i].hourglass, snapshots[i].internal>>)
           /\ HourglassAsClaimed(snapshots, an_out.findings)

\* C18: max_hourglass_ratio is the greatest of 0 and of the ratios
\* hourglass / internal of the snapshots with internal > 0; the hourglass
\* finding is CRITICAL above 0.50, WARNING above 0.10, absent otherwise, and
\* names the time of the first snapshot attaining the maximum.
C18_HourglassMax ==
    (an_pc = "returned" /\ an_in.fn = "energy" /\ an_in.snapshots # <<>>) =>
        LET snapshots == an_in.snapshots
            positive == { i \in Attains(snapshots) : snapshots[i].hourglass > 0 }
        IN /\ IF positive = {}
              THEN SameRatio(an_out.max_hourglass_ratio, <<0, 1>>)
              ELSE \E i \in positive :
                      SameRatio(an_out.max_hourglass_ratio,
                                <<snapshots[i].hourglass, snapshots[i].internal>>)
           /\ HourglassAsClaimed(snapshots, an_out.findings)

\* hourglass = 60 and internal = 100 in the second of three snapshots, the
\* third attaining the same ratio: one CRITICAL finding naming time 2
C18_Witness ==
    /\ an_pc = "returned"
    /\ an_in.fn = "energy"
    /\ Len(an_in.snapshots) = 3
    /\ an_in.snapshots[1].hourglass = 11
    /\ an_in.snapshots[2].hourglass = 60
    /\ an_in.snapshots[3].hourglass = 60
    /\ an_in.snapshots[3].internal = 100
    /\ Titled(an_out.findings, "hourglass")
          = <<Finding(CRITICAL, "energy", <<"hourglass", 2>>)>>

\* C19 as stated: the CRITICAL 'total energy is increasing' finding is
\* emitted exactly when there are more than two snapshots, the first total
\* is positive and the last total exceeds it by more than 5% of it.
C19_EnergyGrowth ==
    (an_pc = "returned" /\ an_in.fn = "energy" /\ an_in.snapshots # <<>>) =>
        LET snapshots == an_in.snapshots
            first == snapshots[1].total
            last == snapshots[Len(snapshots)].total
            found == Titled(an_out.findings, "increasing")
        IN IF Len(snapshots) > 2 /\ first > 0 /\ 100 * (last - first) > 5 * first
           THEN Len(found) = 1 /\ found[1].severity = CRITICAL
           ELSE found = <<>>

\* the share of a part in the entries is above 80%
Above80(smallest_timesteps, part) ==
    100 * PartCount(smallest_timesteps, part) > 80 * Len(smallest_timesteps)

\* C20: the INFO 'part dominates timestep control' finding is emitted
\* exactly when one part owns more than 80% of the smallest-timestep
\* entries, it names that part, and there is never more than one.
C20_PartDominates ==
    (an_pc = "returned" /\ an_in.fn = "timestep") =>
        LET entries == an_in.smallest_timesteps
            found == Titled(an_out, "dominates")
        IN /\ Len(found) <= 1
           /\ Len(found) = 1 <=> \E part \in PartNumbers : Above80(entries, part)
           /\ Len(found) = 1 =>
                 /\ found[1].severity = INFO
                 /\ Above80(entries, found[1].n[2])

\* 5 of 6 entries of part 7 gave the finding for part 7
C20_Witness ==
    /\ an_pc = "returned"
    /\ an_in.fn = "timestep"
    /\ an_in.smallest_timesteps = <<2, 7, 7, 7, 7, 7>>
    /\ Titled(an_out, "dominates") = <<Finding(INFO, "timestep", <<"dominates", 7>>)>>

WithCode(records, code) == SelectSeq(records, LAMBDA r : r.code = code)
AboutCode(findings, category, code) ==
    SelectSeq(findings, LAMBDA f : f.category = category /\ f.n[2] = code
                                      /\ f.n[1] # "warnings detected")

\* C21: analyze_warnings builds exactly one WarningEntry per observed code
\* of each tally, every error entry is CRITICAL, every code of CRITICAL
\* severity gets exactly one finding, and exactly one roll-up finding counts
\* all the warning codes whose severity is WARNING or INFO.
C21_WarningRollUp ==
    (an_pc = "returned" /\ an_in.fn = "warnings") =>
        LET w == an_in.warning_counts
            e == an_in.error_counts
            severity(code) == lookup_error(ERROR_DATABASE, code).severity
            critical == SelectSeq(w, LAMBDA item : severity(item[1]) = CRITICAL)
            nonCritical ==
                SelectSeq(w, LAMBDA item : severity(item[1]) \in {WARNING, INFO})
            rollups == Titled(an_out.findings, "warnings detected")
        IN /\ Len(an_out.entries) = Len(e) + Len(w)
           /\ \A i \in DOMAIN e :
                 WarningEntry(e[i][1], e[i][2], CRITICAL)
                     \in {an_out.entries[k] : k \in 1..Len(e)}
           /\ \A i \in DOMAIN w :
                 WarningEntry(w[i][1], w[i][2], severity(w[i][1]))
                     \in {an_out.entries[k] : k \in (Len(e) + 1)..Len(an_out.entries)}
           /\ \A i \in DOMAIN e :
                 Len(AboutCode(an_out.findings, "error", e[i][1])) = 1
           /\ \A i \in DOMAIN critical :
                 Len(AboutCode(an_out.findings, "warning", critical[i][1])) = 1
           /\ Len(SelectSeq(an_out.findings, LAMBDA f : f.severity = CRITICAL))
                 = Len(e) + Len(critical)
           /\ Len(rollups) = (IF nonCritical = <<>> THEN 0 ELSE 1)
           /\ nonCritical # <<>> => rollups[1].n[2] = TotalCount(nonCritical)

\* C22: lookup_error returns for every code: the stored entry for a stored
\* code, and for any other code an entry of that code whose severity is
\* CRITICAL below 20000, WARNING from 20000 to 59999 and INFO from 60000;
\* the knowledge base is the same after the call.
C22_LookupTotal ==
    /\ (an_pc = "called" /\ an_in.fn = "lookup") => ENABLED CallLookupError
    /\ (an_pc = "returned" /\ an_in.fn = "lookup") =>
          /\ an_in.database = ERROR_DATABASE
          /\ an_in.code \in DOMAIN ERROR_DATABASE =>
                an_out = ERROR_DATABASE[an_in.code]
          /\ an_in.code \notin DOMAIN ERROR_DATABASE =>
                /\ an_out.code = an_in.code
                /\ an_out.severity =
                      (IF an_in.code < 20000 THEN CRITICAL
                       ELSE IF an_in.code <= 59999 THEN WARNING
                       ELSE INFO)

C22_Witness ==
    /\ an_pc = "returned"
    /\ an_in.fn = "lookup"
    /\ an_in.code = 60000
    /\ an_out.severity = INFO

\* C24 as stated: once phase 4 has chosen the snapshots, a parsed energy log
\* means that its snapshots are the ones analysed, and the blocks of the
\* primary log are analysed only when no energy log was parsed.
C24_Original ==
    step = "failure_source" =>
        /\ "glstat" \in parsed => report.energy = "glstat"
        /\ report.energy = "d3hsp" => "glstat" \notin parsed

\* C24: once phase 4 has chosen the snapshots, an energy log that yielded at
\* least one snapshot is the one analysed; the blocks of the primary log are
\* analysed when the primary log was parsed and the energy log is absent or
\* yielded no snapshot.
C24_GlstatPreferred ==
    step = "failure_source" =>
        LET available == "glstat" \in parsed /\ files["glstat"] = "ok"
        IN /\ available => report.energy = "glstat"
           /\ report.energy = "glstat" => available
           /\ report.energy = "d3hsp" <=> (~available /\ "d3hsp" \in parsed)

C24_Witness ==
    /\ step = "failure_source"
    /\ "d3hsp" \in parsed
    /\ files["glstat"] = "ok"
    /\ report.energy = "glstat"

\* the most specific known label that a line's label carries, and the
\* snapshot field that belongs to a known label ("zone_ns" is stored as
\* time_per_zone_ns; a label without a snapshot field has a name of its own)
MostSpecific(parser, label) ==
    LET carried == { s \in KnownLabels(parser) : Contains(label, s) }
    IN CHOOSE s \in carried : \A s2 \in carried : Contains(s, s2)
FieldOfLabel(parser, s) ==
    IF parser = "glstat"
    THEN LET i == CHOOSE i \in DOMAIN FIELD_MAP_ORDERED : FIELD_MAP_ORDERED[i][1] = s
         IN IF FIELD_MAP_ORDERED[i][2] = "zone_ns" THEN "time_per_zone_ns"
            ELSE FIELD_MAP_ORDERED[i][2]
    ELSE CHOOSE f \in SnapshotFields : ExactKey[f] = s

LastField(block, kind) ==
    LET of == SelectSeq(block, LAMBDA l : l.k = kind)
    IN IF of = <<>> THEN 0 ELSE Last(of).a
BlockYield(block) ==
    IF block # <<>> /\ LastField(block, "PartId") # 0
    THEN <<[part_id |-> LastField(block, "PartId"),
            material_id |-> LastField(block, "MaterialId")]>>
    ELSE <<>>

OpenModes ==
    (IF in_energy_block THEN {"energy block"} ELSE {})
        \cup (IF last_warning_code # None THEN {"context window"} ELSE {})
        \cup (IF in_smallest_ts THEN {"timestep table"} ELSE {})

\* C27: in BODY at most one of the three capture modes is open: the energy
\* block, the warning context window, the smallest-timestep table.
C27_OneCaptureMode ==
    state = "BODY" => Cardinality(OpenModes) <= 1

\* C28: a step changes the snapshot sequence only by appending one snapshot,
\* and only when BODY reads a blank line while an energy block is open: the
\* snapshot is the one of that block's cycle line and captured fields, and
\* the block is closed and its fields dropped; in TAIL and at the end of the
\* file the sequence stays as it is, an open block included.
C28_SnapshotAtClose ==
    [][ /\ (state = "TAIL" \/ state' = "TAIL" \/ pc' = "done") =>
               data'.energy_snapshots = data.energy_snapshots
        /\ data'.energy_snapshots # data.energy_snapshots =>
               /\ state = "BODY"
               /\ in_energy_block
               /\ ~in_energy_block'
               /\ current_energy' = EmptyDict
               /\ data'.energy_snapshots =
                     Append(data.energy_snapshots,
                            EnergySnapshot(current_cycle_info, current_energy))
               /\ \E line \in Lines(fileKind) : IsBlank(line) /\ BodyRead(line) ]_vars

\* one block was closed by a blank line and a later block, with a captured
\* field, is still open in TAIL
C28_Witness ==
    /\ state = "TAIL"
    /\ in_energy_block
    /\ DOMAIN current_energy # {}
    /\ current_cycle_info.cycle = 2
    /\ Len(data.energy_snapshots) = 1
    /\ data.energy_snapshots[1].cycle = 1

\* the step reads line in BODY, or reads it in CONTACTS as the line that
\* makes the transition to BODY
ReadInBody(line) ==
    \/ state = "BODY" /\ BodyRead(line)
    \/ state = "CONTACTS" /\ ContactsExit(line) /\ ContactsRead(line)
Counted == { l \in Lines(fileKind) : RE_WARNING(l) \/ RE_ERROR(l) }

\* C29: a '*** Warning C' line read in BODY, or read as the line that takes
\* CONTACTS to BODY, adds one to warning_counts[C] whatever sub-mode is open
\* and changes no other count; a '*** Error C' line does the same to
\* error_counts[C]; no other step, in any phase, changes a count.
C29_Counts ==
    [][ /\ \A line \in Counted :
              (state \in {"BODY", "CONTACTS"} /\ ReadInBody(line)) =>
                 IF RE_WARNING(line)
                 THEN /\ data'.warning_counts =
                            Put(data.warning_counts, line.a,
                                Get(data.warning_counts, line.a, 0) + 1)
                      /\ data'.error_counts = data.error_counts
                 ELSE /\ data'.error_counts =
                            Put(data.error_counts, line.a,
                                Get(data.error_counts, line.a, 0) + 1)
                      /\ data'.warning_counts = data.warning_counts
        /\ (\/ state \notin {"BODY", "CONTACTS"}
            \/ ~ \E line \in Counted : ReadInBody(line)) =>
               /\ data'.warning_counts = data.warning_counts
               /\ data'.error_counts = data.error_counts ]_vars

\* an error line took CONTACTS to BODY and was counted, and a warning line
\* was read, and counted, while an energy block and the timestep table were
\* open
C29_Witness ==
    /\ state = "BODY"
    /\ in_energy_block
    /\ in_smallest_ts
    /\ last_warning_code = 1
    /\ lines_after_warning = 0
    /\ data.warning_counts = (1 :> 1)
    /\ data.error_counts = (3 :> 1)

\* what only BODY and TAIL fill is as parse created it
BodyAndTailEmpty ==
    /\ data.energy_snapshots = <<>>
    /\ data.smallest_timesteps = <<>>
    /\ data.performance = <<>>
    /\ data.contact_timing = <<>>
    /\ data.mpp_timing = <<>>
    /\ data.warning_counts = EmptyDict
    /\ data.error_counts = EmptyDict
    /\ data.termination =
          [TerminationInfo EXCEPT !.target_time = data.termination.target_time]

=============================================================================
